---- MODULE Spec2Model ----
(***************************************************************************)
(* Model of the racetrack-backend live session server (socket.io handlers  *)
(* of the current server file, src/unnamed/part_003): students keyed by a  *)
(* persistent student id with a set of sockets, the disconnect grace       *)
(* timers, the answers map, the quiz/phase pointers and the quizmaster.    *)
(*                                                                         *)
(* Node runs every handler and every timer callback to completion on one   *)
(* thread, so each handler is one atomic action.                           *)
(***************************************************************************)
EXTENDS Integers, Sequences, FiniteSets, TLC

(***************************************************************************)
(* Bounds of the model.                                                    *)
(***************************************************************************)
\* Date.now() is a counter 0..MaxTime advanced by Tick
MaxTime == 1

\* the board size of '% 96'
BoardSize == 96

\* the square up to which the quizmaster is followed on its lap
MaxLapSquare == 1

\* socket.id values of the connections that are open or still referenced
Sockets == {"s1", "s2"}
\* student_id values a client may put in the student-join payload
SuppliedIds == {"a"}
\* keys of students: studentId = student_id || socket.id
Ids == SuppliedIds \cup Sockets
\* setTimeout handles; one more than there are ids, so a second live timer
\* for some id would always find a free handle
Handles == 1..(Cardinality(Ids) + 1)

(***************************************************************************)
(* JavaScript values of payload fields: typeof and the value.              *)
(***************************************************************************)
Undefined == [type |-> "undefined"]
Num(n) == [type |-> "number", val |-> n]
Str(s) == [type |-> "string", val |-> s]
List(s) == [type |-> "array", val |-> s]
IsNumber(v) == v.type = "number"

\* the number n + 1/2, and the halves in the fractional part of a number
NumAndHalf(n) == [type |-> "number", val |-> n, halves |-> 1]
Halves(v) == IF "halves" \in DOMAIN v THEN v.halves ELSE 0
Bool(b) == [type |-> "boolean", val |-> b]
\* a string that is an id (a socket.id or a student_id)
Id(id) == [type |-> "id", val |-> id]
\* a string known by its whole text
Text(s) == [type |-> "string", text |-> s]

\* socket.io disconnect reasons
DeliberateReason == "client namespace disconnect"
Reasons == {"ping timeout", DeliberateReason}

(***************************************************************************)
(* sanitizeName (src/utils.js).  Strings are sequences of character codes. *)
(***************************************************************************)
IsSpace(c) == c \in {9, 10, 13, 32}
IsPrintable(c) == c >= 32 /\ c <= 126
MaxNameLen == 32

RECURSIVE TrimLeft(_)
TrimLeft(s) == IF s # <<>> /\ IsSpace(Head(s)) THEN TrimLeft(Tail(s)) ELSE s

RECURSIVE TrimRight(_)
TrimRight(s) ==
    IF s # <<>> /\ IsSpace(s[Len(s)]) THEN TrimRight(SubSeq(s, 1, Len(s) - 1)) ELSE s

\* name.trim()
Trim(s) == TrimRight(TrimLeft(s))

\* .replace(/\s+/g, ' ')
RECURSIVE CollapseSpaces(_)
CollapseSpaces(s) ==
    IF s = <<>> THEN <<>>
    ELSE IF IsSpace(Head(s))
         THEN <<32>> \o CollapseSpaces(TrimLeft(s))
         ELSE <<Head(s)>> \o CollapseSpaces(Tail(s))

\* .replace(/[^\x20-\x7E]/g, '')
StripNonPrintable(s) == SelectSeq(s, IsPrintable)

\* str.toLowerCase() on ASCII codes
ToLower(s) == [i \in DOMAIN s |-> IF s[i] >= 65 /\ s[i] <= 90 THEN s[i] + 32 ELSE s[i]]

\* lower.includes(word)
Includes(s, w) ==
    \E i \in 0..(Len(s) - Len(w)) : SubSeq(s, i + 1, i + Len(w)) = w

\* ./profanityList is not among the sources; one representative word ("darn")
profanityList == {<<100, 97, 114, 110>>}

containsProfanity(s) ==
    IF s = <<>> THEN FALSE ELSE \E w \in profanityList : Includes(ToLower(s), w)

sanitizeName(name) ==
    IF name.type # "string" THEN <<>>
    ELSE LET clean == StripNonPrintable(CollapseSpaces(Trim(name.val)))
             cut == IF Len(clean) > MaxNameLen THEN SubSeq(clean, 1, MaxNameLen) ELSE clean
         IN IF containsProfanity(cut) THEN <<42, 42, 42>> ELSE cut

\* 'Trouble'
TroubleName == <<84, 114, 111, 117, 98, 108, 101>>
\* 'Unknown'
UnknownName == <<85, 110, 107, 110, 111, 119, 110>>
\* "Math Dad"
MathDad == <<77, 97, 116, 104, 32, 68, 97, 100>>

\* names clients send: " A\t" (cleans to "A"), "\t " (cleans to ""), undefined
RawNames == {Str(<<32, 65, 9>>)}

(***************************************************************************)
(* Server state.                                                           *)
(***************************************************************************)
VARIABLES
    students,           \* Map student_id => {name, joinedAt, square, sockets}, as the
                        \* sequence of its entries in insertion order
    socketToStudent,    \* Map socket.id => student_id
    answers,            \* Map student_id => answerIdx
    disconnectTimers,   \* Map student_id => timeout handle
    timers,             \* the runtime's pending timeouts, in firing order:
                        \* sequence of [handle, studentId]
    currentQuiz,        \* null or {content}
    currentPhase,
    currentQuestionIdx,
    quizmasterEnabled,
    quizmasterName,
    quizmasterSquare,   \* a JS number: here its integer part (Math.floor)
    quizmasterSquareHalves, \* and its fractional part, counted in halves (0 or 1)
    connected,          \* sockets whose connection is open
    now,                \* Date.now()
    lastEvent,          \* the inbound event (or timer) handled last
    emitted,            \* what the last handler emitted, in order
    logged,             \* the console lines of the last handler that tell its branch
    recorded,           \* history: student_id => its most recent accepted answer, and
                        \* whether that answer replaced an earlier one
    env,                \* the names set in process.env
    currentGameSession, \* null or the replay session {id, session_slug}
    pendingSessions,    \* filenames whose createGameSession has not settled yet
    calls,              \* the requests the last handler made to its collaborators
                        \* (replay store, mail, webhook), each with its outcome
    twin,               \* a run of the server kept to compare a second run with:
                        \* its events and what each left, see SpecReplay
    rateLimits          \* utils.js: <<socketId, event>> => timestamps of the calls of
                        \* rateLimit; the handlers here take its result as 'allowed'

vars == <<students, socketToStudent, answers, disconnectTimers, timers, currentQuiz,
          currentPhase, currentQuestionIdx, quizmasterEnabled, quizmasterName,
          quizmasterSquare, quizmasterSquareHalves, connected, now, lastEvent, emitted,
          logged, recorded,
          env, currentGameSession, pendingSessions, calls, twin, rateLimits>>

\* no run is kept
NoTwin == [mode |-> "first", hist |-> <<>>, pos |-> 1, now |-> 0]

replayVars == <<env, currentGameSession, pendingSessions, twin, rateLimits>>
quizVars == <<currentQuiz, currentPhase, currentQuestionIdx>>
quizmasterVars == <<quizmasterEnabled, quizmasterName, quizmasterSquare,
                    quizmasterSquareHalves>>

Null == [type |-> "null"]
EmptyMap == [k \in {} |-> 0]

\* Map operations on function-valued maps
MapSet(m, k, v) == [x \in (DOMAIN m) \cup {k} |-> IF x = k THEN v ELSE m[x]]
MapDelete(m, k) == [x \in (DOMAIN m) \ {k} |-> m[x]]

\* students.has / get / set / delete on the entry sequence
StudentKeys == {students[i].id : i \in DOMAIN students}
HasStudent(id) == id \in StudentKeys
StudentIndex(id) == CHOOSE i \in DOMAIN students : students[i].id = id
GetStudent(id) == students[StudentIndex(id)]
DeleteStudent(ss, id) == SelectSeq(ss, LAMBDA e : e.id # id)

\* the names of process.env the handlers and their collaborators read
EnvNames == {"DATABASE_URL", "TEACHER_EMAIL", "DISCONNECT_WEBHOOK"}

\* the server after construction, with one of the environments envs
InitIn(envs) ==
    /\ students = <<>>
    /\ socketToStudent = EmptyMap
    /\ answers = EmptyMap
    /\ disconnectTimers = EmptyMap
    /\ timers = <<>>
    /\ currentQuiz = Null
    /\ currentPhase = 1
    /\ currentQuestionIdx = 0
    /\ quizmasterEnabled = TRUE
    /\ quizmasterName = MathDad
    /\ quizmasterSquare = 0
    /\ quizmasterSquareHalves = 0
    /\ connected = {}
    /\ now = 0
    /\ lastEvent = [kind |-> "none"]
    /\ emitted = <<>>
    /\ logged = <<>>
    /\ recorded = EmptyMap
    /\ env \in envs
    /\ currentGameSession = Null
    /\ pendingSessions = {}
    /\ calls = <<>>
    /\ twin = NoTwin
    /\ rateLimits = EmptyMap

\* none of the optional services is configured
Init == InitIn({{}})

(***************************************************************************)
(* Outbound events.  io.emit goes to "all", socket.emit to one socket.     *)
(***************************************************************************)
Emit(event, to, data) == [event |-> event, to |-> to, data |-> data]

\* broadcastStudentList: entries in Map order, without the sockets
snapshot(ss) ==
    [i \in DOMAIN ss |-> [id |-> ss[i].id, name |-> ss[i].name,
                          joinedAt |-> ss[i].joinedAt, square |-> ss[i].square]]

broadcastStudentList(ss) == Emit("student-list", "all", snapshot(ss))

\* the loop of broadcastVotes: counts[idx] = (counts[idx] || 0) + 1
RECURSIVE CountVotes(_, _, _)
CountVotes(ans, keys, counts) ==
    IF keys = {} THEN counts
    ELSE LET k == CHOOSE x \in keys : TRUE
             idx == ans[k]
             sofar == IF idx \in DOMAIN counts THEN counts[idx] ELSE 0
         IN CountVotes(ans, keys \ {k}, MapSet(counts, idx, sofar + 1))

tally(ans) == CountVotes(ans, DOMAIN ans, EmptyMap)

broadcastVotes(ans) == Emit("vote-counts", "all", tally(ans))

\* the number with integer part sq and the given halves, as it is emitted
SquareValue(sq, halves) == IF halves = 0 THEN sq ELSE [floor |-> sq, halves |-> halves]

broadcastQuizmasterState(en, nm, sq) ==
    Emit("quizmaster-state", "all", [enabled |-> en, name |-> nm, square |-> sq])

\* the sync a joining socket gets when a quiz is loaded
SyncQuiz(s) ==
    IF currentQuiz # Null /\ currentQuiz.content.len > 0
    THEN << Emit("quiz-md-loaded", s, [content |-> currentQuiz.content]),
            Emit("advance-phase", s, [nextPhase |-> currentPhase,
                                      nextQuestionIdx |-> currentQuestionIdx]) >>
    ELSE <<>>

(***************************************************************************)
(* Timers of the runtime.                                                  *)
(***************************************************************************)
\* clearTimeout(handle): a handle that is not pending is ignored
clearTimeout(tq, h) == SelectSeq(tq, LAMBDA t : t.handle # h)

LiveHandles == {timers[i].handle : i \in DOMAIN timers}
FreeHandles == Handles \ LiveHandles
\* the Timeout object setTimeout returns is a new one
NewHandle == CHOOSE h \in FreeHandles : \A g \in FreeHandles : h <= g

(***************************************************************************)
(* A handler that returns early: nothing changes, nothing is emitted.      *)
(***************************************************************************)
gameVars == <<students, socketToStudent, answers, disconnectTimers, timers, currentQuiz,
              currentPhase, currentQuestionIdx, quizmasterEnabled, quizmasterName,
              quizmasterSquare, quizmasterSquareHalves, recorded, env,
              currentGameSession, pendingSessions, twin, rateLimits>>

\* Mutant: pending cleanups are cancelled before the handler returns.
IgnoredAfterCancelling(ev) ==
    /\ lastEvent' = ev
    /\ emitted' = <<>>
    /\ logged' = <<>>
    /\ calls' = <<>>
    /\ disconnectTimers' = EmptyMap
    /\ timers' = <<>>
    /\ UNCHANGED <<students, socketToStudent, answers, currentQuiz, currentPhase,
                   currentQuestionIdx, quizmasterEnabled, quizmasterName,
                   quizmasterSquare, quizmasterSquareHalves, recorded, replayVars>>

Ignored(ev) ==
    /\ lastEvent' = ev
    /\ emitted' = <<>>
    /\ logged' = <<>>
    /\ calls' = <<>>
    /\ UNCHANGED gameVars

(***************************************************************************)
(* A client opens a connection: socket.io gives it an id no connection had *)
(* before, so an id is taken only when nothing refers to it any more.      *)
(***************************************************************************)
Referenced(s) ==
    \/ s \in DOMAIN socketToStudent
    \/ s \in StudentKeys
    \/ \E i \in DOMAIN students : s \in students[i].sockets
    \/ s \in DOMAIN answers
    \/ s \in DOMAIN disconnectTimers
    \/ \E i \in DOMAIN timers : timers[i].studentId = s

Connect(s) ==
    /\ s \notin connected
    /\ ~Referenced(s)
    /\ connected' = connected \cup {s}
    /\ lastEvent' = [kind |-> "connection", socket |-> s]
    /\ emitted' = <<>>
    /\ logged' = <<>>
    /\ calls' = <<>>
    /\ UNCHANGED <<gameVars, now>>

Tick ==
    /\ now < MaxTime
    /\ now' = now + 1
    /\ UNCHANGED <<gameVars, connected, lastEvent, emitted, logged, calls>>

(***************************************************************************)
(* socket.on('student-join')                                               *)
(***************************************************************************)
SquareInputs == {Undefined, Num(5)}
StudentIdInputs == {Undefined} \cup {[type |-> "id", val |-> id] : id \in SuppliedIds}

\* student_id || socket.id
ResolveStudentId(s, student_id) == IF student_id = Undefined THEN s ELSE student_id.val

\* typeof square === 'number' && square >= 0 ? square : null
ResumeSquare(square) == IF IsNumber(square) /\ square.val >= 0 THEN square ELSE Null

\* Mutant: the map entry is dropped but clearTimeout is forgotten.
CancelCleanupNoClear(studentId) ==
    IF studentId \in DOMAIN disconnectTimers
    THEN [dt |-> MapDelete(disconnectTimers, studentId), tq |-> timers]
    ELSE [dt |-> disconnectTimers, tq |-> timers]

\* Mutant: the timer is cleared but its entry stays in disconnectTimers.
CancelCleanupKeepEntry(studentId) ==
    IF studentId \in DOMAIN disconnectTimers
    THEN [dt |-> disconnectTimers,
          tq |-> clearTimeout(timers, disconnectTimers[studentId])]
    ELSE [dt |-> disconnectTimers, tq |-> timers]

\* Mutant: a join that finds no cleanup pending for its id cancels the oldest
\* pending one.
CancelCleanupOldest(studentId) ==
    IF studentId \in DOMAIN disconnectTimers
    THEN [dt |-> MapDelete(disconnectTimers, studentId),
          tq |-> clearTimeout(timers, disconnectTimers[studentId])]
    ELSE IF timers # <<>>
    THEN [dt |-> MapDelete(disconnectTimers, Head(timers).studentId), tq |-> Tail(timers)]
    ELSE [dt |-> disconnectTimers, tq |-> timers]

\* Mutant: a rejoin does not look for a pending cleanup at all.
CancelCleanupSkipped(studentId) == [dt |-> disconnectTimers, tq |-> timers]

\* "Cancel any pending cleanup for this student"
CancelCleanup(studentId) ==
    IF studentId \in DOMAIN disconnectTimers
    THEN [dt |-> MapDelete(disconnectTimers, studentId),
          tq |-> clearTimeout(timers, disconnectTimers[studentId])]
    ELSE [dt |-> disconnectTimers, tq |-> timers]

\* Mutant: the client's square is taken only when it is ahead of the server's.
ReconcileSquareForward(current, resumeSquare) ==
    IF resumeSquare # Null /\ current < resumeSquare.val THEN resumeSquare.val ELSE current

\* the square of an existing student after the two 'resumeSquare !== null' tests
ReconcileSquare(current, resumeSquare) ==
    IF resumeSquare # Null /\ current # resumeSquare.val THEN resumeSquare.val ELSE current

\* Mutant: every accepted join makes a new entry, known id or not.
JoinStudentsAppended(s, studentId, cleanName, resumeSquare) ==
    Append(students,
           [id |-> studentId, name |-> cleanName, joinedAt |-> now,
            square |-> IF resumeSquare # Null THEN resumeSquare.val ELSE 0,
            sockets |-> {s}])

\* Mutant: a rejoin takes the entry out and puts it back at the end, as
\* students.delete followed by students.set would.
JoinStudentsMovedLast(s, studentId, cleanName, resumeSquare) ==
    IF HasStudent(studentId)
    THEN Append(DeleteStudent(students, studentId),
                [GetStudent(studentId) EXCEPT
                    !.sockets = @ \cup {s},
                    !.square = ReconcileSquare(@, resumeSquare)])
    ELSE Append(students,
                [id |-> studentId, name |-> cleanName, joinedAt |-> now,
                 square |-> IF resumeSquare # Null THEN resumeSquare.val ELSE 0,
                 sockets |-> {s}])

\* Mutant: a join to an existing student forgets student.sockets.add.
JoinStudentsSocketNotAdded(s, studentId, cleanName, resumeSquare) ==
    IF HasStudent(studentId)
    THEN [students EXCEPT ![StudentIndex(studentId)] =
              [@ EXCEPT !.square = ReconcileSquare(@, resumeSquare)]]
    ELSE Append(students,
                [id |-> studentId, name |-> cleanName, joinedAt |-> now,
                 square |-> IF resumeSquare # Null THEN resumeSquare.val ELSE 0,
                 sockets |-> {s}])

\* Mutant: a join to an existing student takes the name it supplies.
JoinStudentsRenamed(s, studentId, cleanName, resumeSquare) ==
    IF HasStudent(studentId)
    THEN [students EXCEPT ![StudentIndex(studentId)] =
              [@ EXCEPT !.sockets = @ \cup {s},
                        !.name = cleanName,
                        !.square = ReconcileSquare(@, resumeSquare)]]
    ELSE Append(students,
                [id |-> studentId, name |-> cleanName, joinedAt |-> now,
                 square |-> IF resumeSquare # Null THEN resumeSquare.val ELSE 0,
                 sockets |-> {s}])

\* the students map after the join of socket s as studentId
JoinStudents(s, studentId, cleanName, resumeSquare) ==
    IF HasStudent(studentId)
    THEN [students EXCEPT ![StudentIndex(studentId)] =
              [@ EXCEPT !.sockets = @ \cup {s},
                        !.square = ReconcileSquare(@, resumeSquare)]]
    ELSE Append(students,
                [id |-> studentId, name |-> cleanName, joinedAt |-> now,
                 square |-> IF resumeSquare # Null THEN resumeSquare.val ELSE 0,
                 sockets |-> {s}])

\* 'rejoined, cancelled cleanup' and '[RECOVERY] Updating square'
JoinLog(studentId, resumeSquare) ==
    (IF studentId \in DOMAIN disconnectTimers
     THEN <<[line |-> "cancelled-cleanup", studentId |-> studentId]>>
     ELSE <<>>)
    \o
    (IF /\ HasStudent(studentId)
        /\ resumeSquare # Null
        /\ GetStudent(studentId).square # resumeSquare.val
     THEN <<[line |-> "recovery", studentId |-> studentId,
             from |-> GetStudent(studentId).square, to |-> resumeSquare.val]>>
     ELSE <<>>)

\* Mutant: a name that sanitizeName empties is let through.
JoinRejectedIfLimited(allowed, cleanName) == ~allowed

\* the two early returns of student-join: rateLimit, then '!cleanName'
JoinRejected(allowed, cleanName) == ~allowed \/ cleanName = <<>>

StudentJoin(s, name, student_id, square, allowed) ==
    LET ev == [kind |-> "student-join", socket |-> s, name |-> name,
               student_id |-> student_id, square |-> square, allowed |-> allowed]
        cleanName == sanitizeName(name)
        studentId == ResolveStudentId(s, student_id)
        cancelled == CancelCleanup(studentId)
    IN  /\ s \in connected
        /\ UNCHANGED <<connected, now>>
        /\ IF JoinRejected(allowed, cleanName)
           THEN Ignored(ev)
           ELSE /\ disconnectTimers' = cancelled.dt
                /\ timers' = cancelled.tq
                /\ students' = JoinStudents(s, studentId, cleanName, ResumeSquare(square))
                /\ socketToStudent' = MapSet(socketToStudent, s, studentId)
                /\ lastEvent' = ev
                /\ emitted' = <<broadcastStudentList(students')>> \o SyncQuiz(s)
                /\ logged' = JoinLog(studentId, ResumeSquare(square))
                /\ calls' = <<>>
                /\ UNCHANGED <<answers, recorded, quizVars, quizmasterVars, replayVars>>


(***************************************************************************)
(* The replay store.  Its functions are async and catch their own errors:  *)
(* the promise a handler gets always resolves, with the row or true when   *)
(* the query went through and with null or false when it did not.  No      *)
(* handler waits for it.                                                   *)
(***************************************************************************)
\* 'if (currentGameSession) gameDatabase.logEvent(currentGameSession.id, ...)':
\* the call the handler makes, with either outcome of the insert
logEvent(eventType, eventData) ==
    IF currentGameSession = Null
    THEN {<<>>}
    ELSE {<<[fn |-> "logEvent", gameId |-> currentGameSession.id,
             eventType |-> eventType, eventData |-> eventData, ok |-> ok]>> :
          ok \in BOOLEAN}

(***************************************************************************)
(* socket.on('student-answer')                                             *)
(***************************************************************************)
AnswerInputs == {Num(0), Num(2), Num(4)}

\* Mutant: socketToStudent.get(socket.id) || socket.id
LookupStudentIdOrSocket(s) == IF s \in DOMAIN socketToStudent THEN socketToStudent[s] ELSE s

\* socketToStudent.get(socket.id): undefined for a socket that has not joined
LookupStudentId(s) == IF s \in DOMAIN socketToStudent THEN socketToStudent[s] ELSE "undefined"

\* typeof answerIdx !== 'number' || answerIdx < 0 || answerIdx > 3 || !studentId
AnswerRejected(answerIdx, studentId) ==
    \/ ~IsNumber(answerIdx)
    \/ answerIdx.val < 0
    \/ answerIdx.val > 3
    \/ studentId = "undefined"

\* Mutant: an answer already on record is kept (first answer wins).
RecordAnswerFirstWins(ans, studentId, idx) ==
    IF studentId \in DOMAIN ans THEN ans ELSE MapSet(ans, studentId, idx)

\* answers.set(studentId, answerIdx)
RecordAnswer(ans, studentId, idx) == MapSet(ans, studentId, idx)

StudentAnswer(s, answerIdx, allowed) ==
    LET ev == [kind |-> "student-answer", socket |-> s, answerIdx |-> answerIdx,
               allowed |-> allowed]
        studentId == LookupStudentId(s)
    IN  /\ s \in connected
        /\ UNCHANGED <<connected, now>>
        /\ IF ~allowed \/ AnswerRejected(answerIdx, studentId)
           THEN Ignored(ev)
           ELSE /\ answers' = RecordAnswer(answers, studentId, answerIdx.val)
                /\ recorded' = MapSet(recorded, studentId,
                                      [idx |-> answerIdx.val,
                                       replaced |-> studentId \in DOMAIN recorded])
                /\ lastEvent' = ev
                /\ emitted' = <<broadcastVotes(answers')>>
                /\ logged' = <<>>
                /\ calls' \in logEvent("student_answer",
                                       [student_id |-> studentId,
                                        student_name |->
                                            IF HasStudent(studentId)
                                            THEN GetStudent(studentId).name
                                            ELSE UnknownName,
                                        answer_idx |-> answerIdx.val,
                                        question_idx |-> currentQuestionIdx,
                                        phase |-> currentPhase])
                /\ UNCHANGED <<students, socketToStudent, disconnectTimers, timers,
                               quizVars, quizmasterVars, replayVars>>

(***************************************************************************)
(* socket.on('disconnect') and the grace timer it starts                   *)
(***************************************************************************)
\* student.sockets.delete(socket.id), when the socket's student exists
DropSocket(ss, studentId, s) ==
    [i \in DOMAIN ss |->
        IF ss[i].id = studentId THEN [ss[i] EXCEPT !.sockets = @ \ {s}] ELSE ss[i]]

\* 'if (remainingSockets === 0)': the disconnect starts a grace timer.  The
\* handler does not look at the reason.
SchedulesCleanup(reason, remainingSockets) == remainingSockets = 0

\* parseInt(process.env.DISCONNECT_GRACE_MS || '15000', 10), the variable unset
DISCONNECT_GRACE_MS == 15000

\* new Date().toISOString(): a string that tells the time
IsoString(t) == [type |-> "string", iso |-> t]

\* x ?? y
Coalesce(x, y) == IF x = Undefined \/ x = Null THEN y ELSE x

\* what buildDisconnectInfo reads of a socket: socket.id,
\* socket.conn?.transport?.name and socket.conn?.lastPing, which the
\* transport does not set
SocketOf(s) == [id |-> Id(s), transport |-> Text("websocket"), lastPing |-> Undefined]

\* buildDisconnectInfo (src/emailService.js).  Objects are functions from
\* their keys to JavaScript values; { ...baseInfo, ...sanitizedContext }
\* takes a key of both from the second.
\* as buildDisconnectInfo, but with { ...sanitizedContext, ...baseInfo }
buildDisconnectInfoBaseWins(socket, reason, studentName, context) ==
    LET baseInfo ==
            [timestamp |-> IsoString(now),
             student |-> studentName,
             studentId |-> IF "studentId" \in DOMAIN context
                           THEN Coalesce(context.studentId, Null) ELSE Null,
             socketId |-> socket.id,
             reason |-> reason,
             transport |-> socket.transport,
             lastPing |-> socket.lastPing,
             pingTimeout |-> Bool(reason = Text("ping timeout"))]
        sanitizedContext == {key \in DOMAIN context : context[key] # Undefined}
    IN [key \in (DOMAIN baseInfo) \cup sanitizedContext |->
            IF key \in DOMAIN baseInfo THEN baseInfo[key] ELSE context[key]]

buildDisconnectInfo(socket, reason, studentName, context) ==
    LET baseInfo ==
            [timestamp |-> IsoString(now),
             student |-> studentName,
             studentId |-> IF "studentId" \in DOMAIN context
                           THEN Coalesce(context.studentId, Null) ELSE Null,
             socketId |-> socket.id,
             reason |-> reason,
             transport |-> socket.transport,
             lastPing |-> socket.lastPing,
             pingTimeout |-> Bool(reason = Text("ping timeout"))]
        sanitizedContext == {key \in DOMAIN context : context[key] # Undefined}
    IN [key \in (DOMAIN baseInfo) \cup sanitizedContext |->
            IF key \in sanitizedContext THEN context[key] ELSE baseInfo[key]]

\* JSON.stringify of an object: the keys whose value is undefined are left out
JSONStringify(object) ==
    [json |-> [key \in {k \in DOMAIN object : object[k] # Undefined} |-> object[key]]]

\* sendDisconnectWebhook (src/emailService.js): the requests it makes, with
\* either outcome of fetch; an error of fetch is caught inside
sendDisconnectWebhook(info) ==
    IF "DISCONNECT_WEBHOOK" \in env
    THEN {<<[fn |-> "fetch", url |-> "DISCONNECT_WEBHOOK", method |-> "POST",
             body |-> JSONStringify(info), ok |-> ok]>> : ok \in BOOLEAN}
    ELSE {<<>>}

\* the record the handler builds: buildDisconnectInfo with its context
DisconnectInfo(s, reason, studentId, before, after) ==
    LET had == \E i \in DOMAIN before : before[i].id = studentId
        idx == CHOOSE i \in DOMAIN before : before[i].id = studentId
        remainingSockets == IF had THEN Cardinality(after[idx].sockets) ELSE 0
    IN buildDisconnectInfo(
          SocketOf(s), Text(reason),
          IF had THEN Str(before[idx].name) ELSE Str(UnknownName),
          [studentId |-> IF studentId = "undefined" THEN Undefined ELSE Id(studentId),
           priorSocketCount |-> Num(IF had THEN Cardinality(before[idx].sockets) ELSE 0),
           remainingSockets |-> Num(remainingSockets),
           hadStudentRecord |-> Bool(had),
           hasAnswer |-> Bool(IF studentId = "undefined" THEN FALSE
                              ELSE studentId \in DOMAIN answers),
           square |-> IF had THEN Num(before[idx].square) ELSE Null,
           totalStudents |-> Num(Len(before)),
           phase |-> Num(currentPhase),
           questionIdx |-> Num(currentQuestionIdx),
           cleanupScheduled |-> Bool(remainingSockets = 0),
           cleanupDelayMs |-> Num(DISCONNECT_GRACE_MS),
           sessionSlug |-> IF currentGameSession = Null THEN Null
                           ELSE Text(currentGameSession.session_slug)])

\* Mutant: a socket that never joined leaves before the record is built.
DiagnosticRecordsIfJoined(had, info) ==
    IF had THEN <<Emit("disconnect-info", "webhook", info)>> ELSE <<>>

\* 'sendDisconnectWebhook(disconnectInfo)', before the handler looks at the
\* student: the records handed over for one disconnect
DiagnosticRecords(had, info) == <<Emit("disconnect-info", "webhook", info)>>

\* Mutant: a request that fails ends the handler before it starts the timer.
WebhookFailureAborts(sent) == sent # <<>> /\ ~sent[1].ok

\* whether the outcome of the webhook request stops the handler: it does
\* not, the handler does not wait for the promise and the error is caught
WebhookFailureStops(sent) == FALSE

Disconnect(s, reason) ==
    LET ev == [kind |-> "disconnect", socket |-> s, reason |-> reason]
        studentId == LookupStudentId(s)
        had == HasStudent(studentId)
        after == IF had THEN DropSocket(students, studentId, s) ELSE students
        remainingSockets ==
            IF had THEN Cardinality(after[StudentIndex(studentId)].sockets) ELSE 0
        info == DisconnectInfo(s, reason, studentId, students, after)
    IN  /\ s \in connected
        /\ connected' = connected \ {s}
        /\ socketToStudent' = MapDelete(socketToStudent, s)
        /\ students' = after
        /\ lastEvent' = ev
        /\ emitted' = DiagnosticRecords(had, info)
        /\ calls' \in sendDisconnectWebhook(info)
        /\ IF had /\ SchedulesCleanup(reason, remainingSockets)
                  /\ ~WebhookFailureStops(calls')
           THEN /\ FreeHandles # {}
                /\ disconnectTimers' = MapSet(disconnectTimers, studentId, NewHandle)
                /\ timers' = Append(timers, [handle |-> NewHandle, studentId |-> studentId])
                /\ logged' = <<[line |-> "scheduling-cleanup", studentId |-> studentId,
                                reason |-> reason]>>
           ELSE /\ UNCHANGED <<disconnectTimers, timers>>
                /\ logged' = IF had
                              THEN <<[line |-> "still-active", studentId |-> studentId,
                                      remainingSockets |-> remainingSockets]>>
                              ELSE <<>>
        /\ UNCHANGED <<answers, recorded, quizVars, quizmasterVars, now, replayVars>>

\* 'record && record.sockets.size === 0', tested when the timer fires
CleanupDue(studentId) ==
    HasStudent(studentId) /\ GetStudent(studentId).sockets = {}

\* Mutant: the callback forgets answers.delete(studentId).
CleanupAnswersKept(ans, studentId) == ans

\* Mutant: answers.clear() in place of answers.delete(studentId).
CleanupAnswersCleared(ans, studentId) == EmptyMap

\* what the callback removes with the student: answers.delete(studentId)
CleanupAnswers(ans, studentId) == MapDelete(ans, studentId)

\* All timers have the same delay DISCONNECT_GRACE_MS, so they fire in the
\* order they were started.
TimerFire ==
    /\ timers # <<>>
    /\ LET t == Head(timers)
           studentId == t.studentId
       IN /\ timers' = Tail(timers)
          /\ lastEvent' = [kind |-> "timer", studentId |-> studentId, handle |-> t.handle]
          /\ IF CleanupDue(studentId)
             THEN /\ students' = DeleteStudent(students, studentId)
                  /\ answers' = CleanupAnswers(answers, studentId)
                  /\ recorded' = MapDelete(recorded, studentId)
                  /\ emitted' = <<broadcastStudentList(students'), broadcastVotes(answers')>>
                  /\ logged' = <<[line |-> "grace-expired", studentId |-> studentId,
                                  lastSquare |-> GetStudent(studentId).square,
                                  hadAnswer |-> studentId \in DOMAIN answers]>>
             ELSE /\ emitted' = <<>>
                  /\ logged' = <<[line |-> "reconnected-before-cleanup",
                                  studentId |-> studentId]>>
                  /\ UNCHANGED <<students, answers, recorded>>
          /\ disconnectTimers' = MapDelete(disconnectTimers, studentId)
    /\ calls' = <<>>
    /\ UNCHANGED <<socketToStudent, quizVars, quizmasterVars, connected, now, replayVars>>


(***************************************************************************)
(* socket.on('advance-phase'): no rate limit, no validation                *)
(***************************************************************************)
CorrectIdxsInputs == {Undefined, List(<<>>), List(<<1>>)}

\* Array.from(answers.values()).filter(idx => typeof idx === 'number').length
totalAnswers(ans) == Cardinality(DOMAIN ans)

\* Mutant: Math.floor in place of Math.round.
quizmasterMoveFloor(wrong, total) == (6 * wrong) \div total

\* Math.round(wrongRatio * 6): halves round up
quizmasterMove(wrong, total) == (12 * wrong + total) \div (2 * total)

\* ... && !correctIdxs.includes(idx)
wrongAnswers(ans, correctIdxs) ==
    Cardinality({k \in DOMAIN ans :
                    \A i \in DOMAIN correctIdxs.val : correctIdxs.val[i] # ans[k]})

\* Mutant: the rule is applied on every advance, whatever the phases.
MoveRuleAppliesAlways(nextPhase, correctIdxs) ==
    totalAnswers(answers) > 0 /\ correctIdxs.type = "array"

\* Mutant: the rule is skipped while the quizmaster is disabled.
MoveRuleAppliesIfEnabled(nextPhase, correctIdxs) ==
    /\ quizmasterEnabled
    /\ currentPhase = 2
    /\ nextPhase = 3
    /\ totalAnswers(answers) > 0
    /\ correctIdxs.type = "array"

\* the two tests around the calculation; an empty list passes the second
MoveRuleApplies(nextPhase, correctIdxs) ==
    /\ currentPhase = 2
    /\ nextPhase = 3
    /\ totalAnswers(answers) > 0
    /\ correctIdxs.type = "array"

\* the quizmaster's move on this advance, 0 when the rule does not apply
PhaseMove(nextPhase, correctIdxs) ==
    IF MoveRuleApplies(nextPhase, correctIdxs)
    THEN quizmasterMove(wrongAnswers(answers, correctIdxs), totalAnswers(answers))
    ELSE 0

\* what advance-phase leaves in the answers map: it does not touch it
AdvanceAnswers(ans) == ans

AdvancePhase(s, nextPhase, nextQuestionIdx, correctIdxs) ==
    LET move == PhaseMove(nextPhase, correctIdxs)
    IN  /\ s \in connected
        /\ lastEvent' = [kind |-> "advance-phase", socket |-> s, nextPhase |-> nextPhase,
                         nextQuestionIdx |-> nextQuestionIdx, correctIdxs |-> correctIdxs]
        /\ quizmasterSquare' =
              IF move > 0 THEN (quizmasterSquare + move) % BoardSize ELSE quizmasterSquare
        /\ quizmasterSquareHalves' = quizmasterSquareHalves
        /\ currentPhase' = nextPhase
        /\ currentQuestionIdx' = nextQuestionIdx
        /\ answers' = AdvanceAnswers(answers)
        /\ logged' =
              IF MoveRuleApplies(nextPhase, correctIdxs)
              THEN <<[line |-> "quizmaster", total |-> totalAnswers(answers),
                      wrong |-> wrongAnswers(answers, correctIdxs), move |-> move,
                      enabled |-> quizmasterEnabled]>>
              ELSE <<>>
        /\ emitted' =
              (IF move > 0
               THEN <<broadcastQuizmasterState(quizmasterEnabled, quizmasterName,
                         SquareValue(quizmasterSquare', quizmasterSquareHalves'))>>
               ELSE <<>>)
              \o <<Emit("advance-phase", "all",
                        [nextPhase |-> nextPhase, nextQuestionIdx |-> nextQuestionIdx])>>
        /\ calls' \in logEvent("phase_advance",
                               [phase |-> nextPhase, question_idx |-> nextQuestionIdx])
        /\ UNCHANGED <<students, socketToStudent, disconnectTimers, timers, recorded,
                       currentQuiz, quizmasterEnabled, quizmasterName, connected, now,
                       replayVars>>

(***************************************************************************)
(* socket.on('restart-game')                                               *)
(***************************************************************************)
\* Mutant: the map is cleared, the timers are left running.
ClearAllTimersLeftRunning(tq, dt) == tq

\* for (const timer of disconnectTimers.values()) clearTimeout(timer)
ClearAllTimers(tq, dt) ==
    SelectSeq(tq, LAMBDA t : \A k \in DOMAIN dt : dt[k] # t.handle)

\* Mutant: answers.clear() is left out.
RestartAnswersKept(ans) == ans

\* answers.clear()
RestartAnswers(ans) == EmptyMap

\* Mutant: the signal is sent before the views.
RestartEmitsSignalFirst(ss, ans, en, nm, sq) ==
    << Emit("game-restarted", "all", Undefined),
       broadcastStudentList(ss),
       broadcastVotes(ans),
       broadcastQuizmasterState(en, nm, sq) >>

\* the three broadcasts and the signal that end the handler; they read the
\* state the clears have left
RestartEmits(ss, ans, en, nm, sq) ==
    << broadcastStudentList(ss),
       broadcastVotes(ans),
       broadcastQuizmasterState(en, nm, sq),
       Emit("game-restarted", "all", Undefined) >>

\* 'if (currentGameSession) { gameDatabase.completeGame(id, finalPositions) ... }'
completeGame(ss) ==
    IF currentGameSession = Null
    THEN {<<>>}
    ELSE {<<[fn |-> "completeGame", gameId |-> currentGameSession.id,
             finalPositions |-> [i \in DOMAIN ss |->
                                    [id |-> ss[i].id, name |-> ss[i].name,
                                     square |-> ss[i].square, totalCorrect |-> 0]],
             ok |-> ok]>> :
          ok \in BOOLEAN}

RestartGame(s) ==
    /\ s \in connected
    /\ timers' = ClearAllTimers(timers, disconnectTimers)
    /\ disconnectTimers' = EmptyMap
    /\ calls' \in completeGame(students)
    /\ currentGameSession' = Null
    /\ students' = <<>>
    /\ socketToStudent' = EmptyMap
    /\ answers' = RestartAnswers(answers)
    /\ recorded' = EmptyMap
    /\ currentQuiz' = Null
    /\ currentPhase' = 1
    /\ currentQuestionIdx' = 0
    /\ quizmasterSquare' = 0
    /\ quizmasterSquareHalves' = 0
    /\ lastEvent' = [kind |-> "restart-game", socket |-> s]
    /\ logged' = <<>>
    /\ emitted' = RestartEmits(students', answers', quizmasterEnabled, quizmasterName,
                               SquareValue(quizmasterSquare', quizmasterSquareHalves'))
    /\ UNCHANGED <<quizmasterEnabled, quizmasterName, connected, now, env,
                   pendingSessions, twin, rateLimits>>

(***************************************************************************)
(* socket.on('student-move') and socket.on('admin-adjust-square')          *)
(***************************************************************************)
RollInputs == {Undefined, Num(6), Num(7)}
MoveSquareInputs == {Undefined, Num(-1), Num(98)}
MoveIdInputs == {Undefined, Id("s1"), Id("s2")}

\* id || socketToStudent.get(socket.id)
TargetId(s, id) == IF id = Undefined THEN LookupStudentId(s) ELSE id.val

\* typeof square === 'number' && square >= 0
IsDirectSquare(square) == IsNumber(square) /\ square.val >= 0

\* typeof roll === 'number' && roll >= 1 && roll <= 6
IsDiceRoll(roll) == IsNumber(roll) /\ roll.val >= 1 /\ roll.val <= 6

\* Mutant: the dice roll is added without wrapping.
NewSquareUnwrapped(current, roll, square) ==
    IF IsDirectSquare(square) THEN square.val ELSE current + roll.val

\* Mutant: the roll is looked at first.
NewSquareRollFirst(current, roll, square) ==
    IF IsDiceRoll(roll) THEN (current + roll.val) % BoardSize ELSE square.val

\* newSquare of a valid move: the direct square wins over the roll
NewSquare(current, roll, square) ==
    IF IsDirectSquare(square) THEN square.val ELSE (current + roll.val) % BoardSize

\* s.square = newSquare
SetSquare(ss, id, sq) ==
    [i \in DOMAIN ss |-> IF ss[i].id = id THEN [ss[i] EXCEPT !.square = sq] ELSE ss[i]]

\* Mutant: a move without valid parameters still goes on to the broadcast.
MoveRejectedNever(targetId, roll, square) == ~HasStudent(targetId)

\* the two early returns of student-move after the rate limit
MoveRejected(targetId, roll, square) ==
    \/ ~HasStudent(targetId)
    \/ ~IsDirectSquare(square) /\ ~IsDiceRoll(roll)

StudentMove(s, roll, id, square, allowed) ==
    LET ev == [kind |-> "student-move", socket |-> s, roll |-> roll, id |-> id,
               square |-> square, allowed |-> allowed]
        targetId == TargetId(s, id)
    IN  /\ s \in connected
        /\ UNCHANGED <<connected, now>>
        /\ IF ~allowed
           THEN Ignored(ev)
           ELSE IF MoveRejected(targetId, roll, square)
           THEN /\ lastEvent' = ev
                /\ emitted' = <<>>
                /\ logged' = <<[line |-> IF ~HasStudent(targetId)
                                         THEN "student-not-found" ELSE "invalid-move",
                                targetId |-> targetId]>>
                /\ calls' = <<>>
                /\ UNCHANGED gameVars
           ELSE LET st == GetStudent(targetId)
                    newSquare ==
                        IF IsDirectSquare(square) \/ IsDiceRoll(roll)
                        THEN NewSquare(st.square, roll, square)
                        ELSE st.square
                IN  /\ students' = SetSquare(students, targetId, newSquare)
                    /\ lastEvent' = ev
                    /\ emitted' =
                          << Emit("student-move-update", "all",
                                  [id |-> targetId, square |-> newSquare, name |-> st.name,
                                   roll |-> IF IsNumber(roll) THEN roll ELSE Undefined]),
                             broadcastStudentList(students') >>
                    /\ logged' = <<[line |-> IF IsDirectSquare(square)
                                             THEN "direct-move" ELSE "dice-roll",
                                    targetId |-> targetId,
                                    from |-> st.square, to |-> newSquare]>>
                    /\ calls' \in IF st.square # newSquare
                                  THEN logEvent("student_move",
                                                [student_id |-> targetId,
                                                 student_name |-> st.name,
                                                 from_square |-> st.square,
                                                 to_square |-> newSquare,
                                                 roll |-> IF IsNumber(roll) THEN roll ELSE Null,
                                                 question_idx |-> currentQuestionIdx,
                                                 phase |-> currentPhase])
                                  ELSE {<<>>}
                    /\ UNCHANGED <<socketToStudent, answers, disconnectTimers, timers,
                                   recorded, quizVars, quizmasterVars, replayVars>>

\* !id || typeof square !== 'number' || square < 0, then !student
AdjustRejected(id, square) ==
    \/ id = Undefined
    \/ ~IsNumber(square)
    \/ square.val < 0
    \/ ~HasStudent(id.val)

AdminAdjustSquare(s, id, square, allowed) ==
    LET ev == [kind |-> "admin-adjust-square", socket |-> s, id |-> id,
               square |-> square, allowed |-> allowed]
    IN  /\ s \in connected
        /\ UNCHANGED <<connected, now>>
        /\ IF ~allowed \/ AdjustRejected(id, square)
           THEN Ignored(ev)
           ELSE /\ students' = SetSquare(students, id.val, square.val)
                /\ lastEvent' = ev
                /\ emitted' =
                      << Emit("student-move-update", "all",
                              [id |-> id.val, square |-> square.val,
                               name |-> GetStudent(id.val).name,
                               isAdminAdjustment |-> TRUE]),
                         broadcastStudentList(students') >>
                /\ logged' = <<>>
                /\ calls' = <<>>
                /\ UNCHANGED <<socketToStudent, answers, disconnectTimers, timers,
                               recorded, quizVars, quizmasterVars, replayVars>>

(***************************************************************************)
(* The admin quizmaster controls                                           *)
(***************************************************************************)
EnabledInputs == {Undefined, Bool(TRUE), Bool(FALSE)}
QuizmasterNameInputs == {Str(<<>>), Str(<<81, 32, 32, 77>>)}
QuizmasterSquareInputs == {Undefined, Num(95), Num(97)}

MaxQuizmasterNameLen == 50
MaxQuizmasterSquare == 96

\* Mutant: the controls change the quizmaster without broadcasting it.
SetQuizmasterSilently(ev, en, nm, sq, halves) ==
    /\ quizmasterEnabled' = en
    /\ quizmasterName' = nm
    /\ quizmasterSquare' = sq
    /\ quizmasterSquareHalves' = halves
    /\ lastEvent' = ev
    /\ emitted' = <<>>
    /\ logged' = <<>>
    /\ calls' = <<>>
    /\ UNCHANGED <<students, socketToStudent, answers, disconnectTimers, timers,
                   recorded, quizVars, replayVars>>

\* the state change shared by the three controls, followed by the broadcast
SetQuizmaster(ev, en, nm, sq, halves) ==
    /\ quizmasterEnabled' = en
    /\ quizmasterName' = nm
    /\ quizmasterSquare' = sq
    /\ quizmasterSquareHalves' = halves
    /\ lastEvent' = ev
    /\ emitted' = <<broadcastQuizmasterState(en, nm, SquareValue(sq, halves))>>
    /\ logged' = <<>>
    /\ calls' = <<>>
    /\ UNCHANGED <<students, socketToStudent, answers, disconnectTimers, timers,
                   recorded, quizVars, replayVars>>

AdminToggleQuizmaster(s, enabled, allowed) ==
    LET ev == [kind |-> "admin-toggle-quizmaster", socket |-> s, enabled |-> enabled,
               allowed |-> allowed]
    IN  /\ s \in connected
        /\ UNCHANGED <<connected, now>>
        /\ IF ~allowed \/ enabled.type # "boolean"
           THEN Ignored(ev)
           ELSE SetQuizmaster(ev, enabled.val, quizmasterName, quizmasterSquare,
                              quizmasterSquareHalves)

\* typeof name !== 'string' || name.length === 0 || name.length > 50, then !cleanName
QuizmasterNameRejected(name) ==
    \/ name.type # "string"
    \/ Len(name.val) = 0
    \/ Len(name.val) > MaxQuizmasterNameLen
    \/ sanitizeName(name) = <<>>

AdminSetQuizmasterName(s, name, allowed) ==
    LET ev == [kind |-> "admin-set-quizmaster-name", socket |-> s, name |-> name,
               allowed |-> allowed]
    IN  /\ s \in connected
        /\ UNCHANGED <<connected, now>>
        /\ IF ~allowed \/ QuizmasterNameRejected(name)
           THEN Ignored(ev)
           ELSE SetQuizmaster(ev, quizmasterEnabled, sanitizeName(name), quizmasterSquare,
                              quizmasterSquareHalves)

\* typeof square !== 'number' || square < 0 || square > 96, on the integer
\* part and the halves of the number
QuizmasterSquareRejected(square) ==
    \/ ~IsNumber(square)
    \/ square.val < 0
    \/ square.val > MaxQuizmasterSquare
    \/ square.val = MaxQuizmasterSquare /\ Halves(square) > 0

AdminAdjustQuizmasterSquare(s, square, allowed) ==
    LET ev == [kind |-> "admin-adjust-quizmaster-square", socket |-> s,
               square |-> square, allowed |-> allowed]
    IN  /\ s \in connected
        /\ UNCHANGED <<connected, now>>
        /\ IF ~allowed \/ QuizmasterSquareRejected(square)
           THEN Ignored(ev)
           ELSE SetQuizmaster(ev, quizmasterEnabled, quizmasterName, square.val,
                              Halves(square))

(***************************************************************************)
(* socket.on('load-quiz-md') and socket.on('replace-student-name'):        *)
(* neither is rate limited.  A quiz text is known by its length.           *)
(***************************************************************************)
Content(n) == [type |-> "string", len |-> n]

MaxQuizLen == 100000
ContentInputs == {Undefined, Content(0), Content(9), Content(MaxQuizLen + 1)}

\* Mutant: the length of the content is not looked at.
QuizRejectedIfNotString(content) == content.type # "string"

\* Mutant: without a replay store the handler returns before loading the quiz.
QuizRejectedWithoutStore(content) ==
    content.type # "string" \/ content.len > MaxQuizLen \/ "DATABASE_URL" \notin env

\* typeof content !== 'string' || content.length > 100000
QuizRejected(content) == content.type # "string" \/ content.len > MaxQuizLen

\* the filename of the payload: missing, or one of two names
FilenameInputs == {Undefined, Text("q1"), Text("q2")}

\* 'if (filename)'
HasFilename(filename) == filename # Undefined /\ filename # Text("")

\* A createGameSession is started for a filename only when none is in flight
\* for it, which keeps the set of pending calls within the filenames.
LoadQuizMd(s, content, filename) ==
    LET ev == [kind |-> "load-quiz-md", socket |-> s, content |-> content,
               filename |-> filename]
        starts == ~QuizRejected(content) /\ HasFilename(filename)
    IN  /\ s \in connected
        /\ starts /\ "DATABASE_URL" \in env => filename.text \notin pendingSessions
        /\ UNCHANGED <<connected, now>>
        /\ IF QuizRejected(content)
           THEN Ignored(ev)
           ELSE /\ currentQuiz' = [content |-> content]
                /\ currentPhase' = 1
                /\ currentQuestionIdx' = 0
                /\ lastEvent' = ev
                /\ emitted' = <<Emit("quiz-md-loaded", "all", [content |-> content])>>
                /\ logged' = <<>>
                /\ calls' = IF starts
                            THEN <<[fn |-> "createGameSession", filename |-> filename,
                                    content |-> content]>>
                            ELSE <<>>
                /\ pendingSessions' = IF starts /\ "DATABASE_URL" \in env
                                      THEN pendingSessions \cup {filename.text}
                                      ELSE pendingSessions
                /\ UNCHANGED <<students, socketToStudent, answers, disconnectTimers,
                               timers, recorded, quizmasterVars, env, currentGameSession,
                               twin, rateLimits>>

\* the row createGameSession resolves with for a filename
SessionFor(f) == [id |-> f, session_slug |-> f]

\* sendReplayNotification under 'if (teacherEmail)', sent or not
sendReplayNotification(session, f) ==
    IF "TEACHER_EMAIL" \in env
    THEN {<<[fn |-> "sendReplayNotification", session_slug |-> session.session_slug,
             filename |-> f, ok |-> ok]>> : ok \in BOOLEAN}
    ELSE {<<>>}

\* The promise of createGameSession(f, ...) settles and its 'then' callback
\* runs: with the row when the insert went through, with null when it failed
\* (without DATABASE_URL the promise resolves with null before any other
\* event, which changes nothing and is left out).
SessionSettles(f, created) ==
    /\ f \in pendingSessions
    /\ pendingSessions' = pendingSessions \ {f}
    /\ lastEvent' = [kind |-> "session-settled", filename |-> f, created |-> created]
    /\ emitted' = <<>>
    /\ IF created
       THEN /\ currentGameSession' = SessionFor(f)
            /\ calls' \in sendReplayNotification(SessionFor(f), f)
            /\ logged' = <<[line |-> "session-created", session_slug |-> f]>>
       ELSE /\ UNCHANGED currentGameSession
            /\ calls' = <<>>
            /\ logged' = <<>>
    /\ UNCHANGED <<students, socketToStudent, answers, disconnectTimers, timers,
                   recorded, quizVars, quizmasterVars, connected, now, env, twin,
                   rateLimits>>

\* Mutant: the rename also sends the student back to the start.
SetNameResetsSquare(ss, id, nm) ==
    [i \in DOMAIN ss |->
        IF ss[i].id = id THEN [ss[i] EXCEPT !.name = nm, !.square = 0] ELSE ss[i]]

\* s.name = 'Trouble'
SetName(ss, id, nm) ==
    [i \in DOMAIN ss |-> IF ss[i].id = id THEN [ss[i] EXCEPT !.name = nm] ELSE ss[i]]

ReplaceStudentName(s, id) ==
    LET ev == [kind |-> "replace-student-name", socket |-> s, id |-> id]
    IN  /\ s \in connected
        /\ UNCHANGED <<connected, now>>
        /\ IF id = Undefined \/ ~HasStudent(id.val) \/ GetStudent(id.val).name = TroubleName
           THEN Ignored(ev)
           ELSE /\ students' = SetName(students, id.val, TroubleName)
                /\ lastEvent' = ev
                /\ emitted' = <<broadcastStudentList(students')>>
                /\ logged' = <<>>
                /\ calls' = <<>>
                /\ UNCHANGED <<socketToStudent, answers, disconnectTimers, timers,
                               recorded, quizVars, quizmasterVars, replayVars>>

(***************************************************************************)
(* Specifications.  Each draws the handlers' payloads from small sets.     *)
(* Whether rateLimit lets an event through depends only on the arrival     *)
(* times of that socket's earlier events of the same kind, which the       *)
(* clients choose, so it is an input of the event.                         *)
(***************************************************************************)
JoinFrom(names, studentIds, squares, alloweds) ==
    \E s \in Sockets, name \in names, student_id \in studentIds,
       square \in squares, allowed \in alloweds :
        StudentJoin(s, name, student_id, square, allowed)

AnswerFrom(idxs, alloweds) ==
    \E s \in Sockets, answerIdx \in idxs, allowed \in alloweds :
        StudentAnswer(s, answerIdx, allowed)

AdvanceFrom(phases, questionIdxs, corrects) ==
    \E s \in Sockets, nextPhase \in phases, nextQuestionIdx \in questionIdxs,
       correctIdxs \in corrects :
        AdvancePhase(s, nextPhase, nextQuestionIdx, correctIdxs)

DoConnect == \E s \in Sockets : Connect(s)
DoDisconnect == \E s \in Sockets, reason \in Reasons : Disconnect(s, reason)
DoRestartGame == \E s \in Sockets : RestartGame(s)

\* The presence core: joins under a supplied id or the socket's own, answers,
\* disconnects, grace timers, restart.
Next ==
    \/ DoConnect
    \/ JoinFrom(RawNames, StudentIdInputs, {Undefined}, {TRUE})
    \/ AnswerFrom({Num(2), Num(4)}, {TRUE})
    \/ DoDisconnect
    \/ TimerFire
    \/ DoRestartGame

Spec == Init /\ [][Next]_vars

\* Rejoining: the clock runs and joins carry a square to resume from.
NextRejoin ==
    \/ DoConnect
    \/ Tick
    \/ JoinFrom(RawNames, StudentIdInputs, SquareInputs, {TRUE})
    \/ DoDisconnect
    \/ TimerFire
    \/ DoRestartGame

SpecRejoin == Init /\ [][NextRejoin]_vars

\* Voting: several answer indices, resubmissions, and answers out of range.
NextVotes ==
    \/ DoConnect
    \/ JoinFrom(RawNames, StudentIdInputs, {Undefined}, {TRUE})
    \/ AnswerFrom(AnswerInputs, {TRUE})
    \/ DoDisconnect
    \/ TimerFire
    \/ DoRestartGame

SpecVotes == Init /\ [][NextVotes]_vars

\* Phase advances over the three phases, with answers on record.
NextAdvance ==
    \/ DoConnect
    \/ JoinFrom(RawNames, StudentIdInputs, {Undefined}, {TRUE})
    \/ AnswerFrom({Num(2)}, {TRUE})
    \/ AdvanceFrom({1, 2, 3}, {0, 1}, {Undefined, List(<<2>>)})
    \/ DoRestartGame

SpecAdvance == Init /\ [][NextAdvance]_vars

MoveFrom(rolls, ids, squares, alloweds) ==
    \E s \in Sockets, roll \in rolls, id \in ids, square \in squares,
       allowed \in alloweds :
        StudentMove(s, roll, id, square, allowed)

AdjustFrom(ids, squares, alloweds) ==
    \E s \in Sockets, id \in ids, square \in squares, allowed \in alloweds :
        AdminAdjustSquare(s, id, square, allowed)

\* Moving: dice rolls and direct squares, for oneself or for another id, with
\* parameters in and out of range.  Socket s1 is the one student; s2 moves
\* it by id, or names itself and finds no student.
NextMove ==
    \/ DoConnect
    \/ \E name \in RawNames : StudentJoin("s1", name, Undefined, Undefined, TRUE)
    \/ MoveFrom(RollInputs, MoveIdInputs, MoveSquareInputs, {TRUE})
    \/ AdjustFrom({Id("s1"), Id("s2")}, {Num(98)}, {TRUE})
    \/ DoRestartGame

SpecMove == Init /\ [][NextMove]_vars

ToggleFrom(enableds, alloweds) ==
    \E s \in Sockets, enabled \in enableds, allowed \in alloweds :
        AdminToggleQuizmaster(s, enabled, allowed)

\* The quizmaster: answers right and wrong, advances into phases 2 and 3 with
\* and without a list of correct indices, and the quizmaster switched on and off.
NextQuizmaster ==
    \/ DoConnect
    \/ JoinFrom(RawNames, {Undefined}, {Undefined}, {TRUE})
    \/ AnswerFrom({Num(1), Num(2)}, {TRUE})
    \/ AdvanceFrom({2, 3}, {0}, {Undefined, List(<<>>), List(<<2>>)})
    \/ ToggleFrom({Bool(TRUE), Bool(FALSE)}, {TRUE})
    \/ DoRestartGame

SpecQuizmaster == Init /\ [][NextQuizmaster]_vars

\* The movement calculation on its own: four students have joined, each over
\* a socket of its own, a quiz is loaded and question 0 is in phase 2; any of
\* them may have answered 1 or 2.
TallySockets == {"t1", "t2", "t3", "t4"}
TallyOrder == <<"t1", "t2", "t3", "t4">>

InitTally ==
    /\ students = [i \in 1..4 |-> [id |-> TallyOrder[i], name |-> <<65>>, joinedAt |-> 0,
                                   square |-> 0, sockets |-> {TallyOrder[i]}]]
    /\ socketToStudent = [s \in TallySockets |-> s]
    /\ \E voters \in SUBSET TallySockets : answers \in [voters -> {1, 2}]
    /\ recorded = [k \in DOMAIN answers |-> [idx |-> answers[k], replaced |-> FALSE]]
    /\ disconnectTimers = EmptyMap
    /\ timers = <<>>
    /\ currentQuiz = [content |-> Content(9)]
    /\ currentPhase = 2
    /\ currentQuestionIdx = 0
    /\ quizmasterEnabled = TRUE
    /\ quizmasterName = MathDad
    /\ quizmasterSquare = 0
    /\ quizmasterSquareHalves = 0
    /\ connected = TallySockets
    /\ now = 0
    /\ lastEvent = [kind |-> "advance-phase", socket |-> "t1", nextPhase |-> 2,
                    nextQuestionIdx |-> 0, correctIdxs |-> Undefined]
    /\ emitted = <<Emit("advance-phase", "all", [nextPhase |-> 2, nextQuestionIdx |-> 0])>>
    /\ logged = <<>>
    /\ env = {}
    /\ currentGameSession = Null
    /\ pendingSessions = {}
    /\ calls = <<>>
    /\ twin = NoTwin
    /\ rateLimits = EmptyMap

NextTally ==
    \/ \E nextPhase \in {2, 3} : AdvancePhase("t1", nextPhase, 0, List(<<2>>))
    \/ \E enabled \in {Bool(TRUE), Bool(FALSE)} : AdminToggleQuizmaster("t1", enabled, TRUE)

SpecTally == InitTally /\ [][NextTally]_vars

LoadFrom(contents) ==
    \E s \in Sockets, content \in contents : LoadQuizMd(s, content, Undefined)

SetQuizmasterNameFrom(names, alloweds) ==
    \E s \in Sockets, name \in names, allowed \in alloweds :
        AdminSetQuizmasterName(s, name, allowed)

AdjustQuizmasterFrom(squares, alloweds) ==
    \E s \in Sockets, square \in squares, allowed \in alloweds :
        AdminAdjustQuizmasterSquare(s, square, allowed)

\* Restarting a game in progress: students with answers and pending
\* cleanups, a quiz loaded and advanced, the quizmaster renamed, switched off
\* and moved.
NextRestart ==
    \/ DoConnect
    \/ JoinFrom(RawNames, {Undefined}, {Undefined}, {TRUE})
    \/ AnswerFrom({Num(1)}, {TRUE})
    \/ LoadFrom({Content(9)})
    \/ AdvanceFrom({2}, {1}, {Undefined})
    \/ ToggleFrom({Bool(FALSE)}, {TRUE})
    \/ SetQuizmasterNameFrom({Str(<<81, 32, 32, 77>>)}, {TRUE})
    \/ AdjustQuizmasterFrom({Num(95)}, {TRUE})
    \/ \E s \in Sockets : Disconnect(s, "ping timeout")
    \/ TimerFire
    \/ DoRestartGame

SpecRestart == Init /\ [][NextRestart]_vars

\* The three views: every handler that assigns to students, answers or the
\* quizmaster variables, each with one accepted payload; the teacher's
\* events come from socket s1.  Phases are advanced only while the quizmaster
\* is within the first MaxLapSquare squares.
NextViews ==
    \/ DoConnect
    \/ JoinFrom(RawNames, {Undefined}, {Undefined, Num(6)}, {TRUE})
    \/ AnswerFrom({Num(1)}, {TRUE})
    \/ MoveFrom({Undefined}, {Undefined}, {Num(6)}, {TRUE})
    \/ AdminAdjustSquare("s1", Id("s2"), Num(6), TRUE)
    \/ ReplaceStudentName("s1", Id("s2"))
    \/ /\ quizmasterSquare <= MaxLapSquare
       /\ \E nextPhase \in {2, 3} : AdvancePhase("s1", nextPhase, 0, List(<<2>>))
    \/ AdminToggleQuizmaster("s1", Bool(FALSE), TRUE)
    \/ AdminSetQuizmasterName("s1", Str(<<81, 32, 32, 77>>), TRUE)
    \/ AdminAdjustQuizmasterSquare("s1", Num(3), TRUE)
    \/ \E s \in Sockets : Disconnect(s, "ping timeout")
    \/ TimerFire
    \/ DoRestartGame

SpecViews == Init /\ [][NextViews]_vars

\* Rate limiting: each rate-limited event arrives both within and beyond its
\* socket's allowance, with a payload that would be accepted.
NextLimits ==
    \/ DoConnect
    \/ JoinFrom(RawNames, {Id("a")}, {Undefined}, BOOLEAN)
    \/ AnswerFrom({Num(1)}, BOOLEAN)
    \/ MoveFrom({Undefined}, {Undefined}, {Num(6)}, BOOLEAN)
    \/ \E allowed \in BOOLEAN : AdminAdjustSquare("s1", Id("a"), Num(6), allowed)
    \/ \E allowed \in BOOLEAN : AdminToggleQuizmaster("s1", Bool(FALSE), allowed)
    \/ \E allowed \in BOOLEAN :
          AdminSetQuizmasterName("s1", Str(<<81, 32, 32, 77>>), allowed)
    \/ \E allowed \in BOOLEAN : AdminAdjustQuizmasterSquare("s1", Num(3), allowed)
    \/ \E s \in Sockets : Disconnect(s, "ping timeout")
    \/ TimerFire
    \/ DoRestartGame

SpecLimits == Init /\ [][NextLimits]_vars

\* names that sanitizeName empties: "\t " and a payload without a name
EmptyNames == {Str(<<9, 32>>), Undefined}

\* Joining with names that survive sanitizeName and names that do not, under
\* the socket's own id or a supplied one, while connections drop and grace timers run.
NextJoin ==
    \/ DoConnect
    \/ JoinFrom(RawNames \cup EmptyNames, StudentIdInputs, {Undefined}, {TRUE})
    \/ \E s \in Sockets : Disconnect(s, "ping timeout")
    \/ TimerFire

SpecJoin == Init /\ [][NextJoin]_vars

\* The order of the list: socket s1 joins as "a" and s2 under its own id;
\* the two identities are made, rejoined, purged by their timers and made
\* again, while "a" is moved, renamed and gives an answer; s2 may restart
\* the game.
NextOrder ==
    \/ DoConnect
    \/ Tick
    \/ \E name \in RawNames : StudentJoin("s1", name, Id("a"), Undefined, TRUE)
    \/ \E name \in RawNames : StudentJoin("s2", name, Undefined, Undefined, TRUE)
    \/ StudentAnswer("s1", Num(1), TRUE)
    \/ StudentMove("s1", Undefined, Undefined, Num(6), TRUE)
    \/ ReplaceStudentName("s1", Id(LookupStudentId("s1")))
    \/ \E s \in Sockets : Disconnect(s, "ping timeout")
    \/ TimerFire
    \/ RestartGame("s2")

SpecOrder == Init /\ [][NextOrder]_vars

LoadNamedFrom(contents, filenames) ==
    \E content \in contents, filename \in filenames : LoadQuizMd("s1", content, filename)

DoSettle == \E f \in pendingSessions, created \in BOOLEAN : SessionSettles(f, created)

\* Loading quizzes into a game that is under way: socket s1 is the teacher's
\* and sends contents of every kind, with and without a filename, with the
\* replay store configured or not.
NextLoad ==
    \/ DoConnect
    \/ JoinFrom(RawNames, {Undefined}, {Undefined}, {TRUE})
    \/ StudentAnswer("s2", Num(1), TRUE)
    \/ LoadNamedFrom(ContentInputs, {Undefined, Text("q1")})
    \/ DoSettle
    \/ AdvancePhase("s1", 2, 1, Undefined)
    \/ AdminAdjustQuizmasterSquare("s1", Num(95), TRUE)
    \/ Disconnect("s2", "ping timeout")
    \/ TimerFire

SpecLoad == InitIn({{}, {"DATABASE_URL"}}) /\ [][NextLoad]_vars

\* Disconnecting: both sockets may join as "a" or not join at all, and drop
\* for either reason, with the webhook configured or not.
NextDisconnect ==
    \/ DoConnect
    \/ JoinFrom(RawNames, {Id("a")}, {Undefined}, {TRUE})
    \/ DoDisconnect
    \/ TimerFire

SpecDisconnect == InitIn({{}, {"DISCONNECT_WEBHOOK"}}) /\ [][NextDisconnect]_vars

\* buildDisconnectInfo alone: the arguments are drawn at the start, the
\* context from the objects over three keys, one of them a key of the base
\* record, with undefined, null or a number as values.
ContextKeys == {"studentId", "reason", "remainingSockets"}
ContextInputs == UNION {[keys -> {Undefined, Null, Num(0)}] : keys \in SUBSET ContextKeys}

InitDiagnostics ==
    /\ students = <<>>
    /\ socketToStudent = EmptyMap
    /\ answers = EmptyMap
    /\ disconnectTimers = EmptyMap
    /\ timers = <<>>
    /\ currentQuiz = Null
    /\ currentPhase = 1
    /\ currentQuestionIdx = 0
    /\ quizmasterEnabled = TRUE
    /\ quizmasterName = MathDad
    /\ quizmasterSquare = 0
    /\ quizmasterSquareHalves = 0
    /\ connected = {}
    /\ now = 0
    /\ \E s \in Sockets, reason \in Reasons, name \in {UnknownName, <<65>>},
          context \in ContextInputs :
          lastEvent = [kind |-> "arguments", socket |-> s, reason |-> Text(reason),
                       studentName |-> Str(name), context |-> context]
    /\ emitted = <<>>
    /\ logged = <<>>
    /\ recorded = EmptyMap
    /\ env = {}
    /\ currentGameSession = Null
    /\ pendingSessions = {}
    /\ calls = <<>>
    /\ twin = NoTwin
    /\ rateLimits = EmptyMap

BuildDisconnectInfo ==
    /\ lastEvent.kind = "arguments"
    /\ lastEvent' = [lastEvent EXCEPT !.kind = "built"]
    /\ emitted' = <<Emit("disconnect-info", "caller",
                         buildDisconnectInfo(SocketOf(lastEvent.socket), lastEvent.reason,
                                             lastEvent.studentName, lastEvent.context))>>
    /\ UNCHANGED <<gameVars, connected, now, logged, calls>>

NextDiagnostics ==
    \/ lastEvent.kind = "arguments" /\ Tick
    \/ BuildDisconnectInfo

SpecDiagnostics == InitDiagnostics /\ [][NextDiagnostics]_vars

\* The quizmaster's square: the teacher on s1 sets it to numbers inside, on
\* and outside the limits, whole and not, a student's wrong answer moves it
\* on 2 -> 3 (from the first squares and over the end of the board), and the
\* game is restarted.
SquareNumbers == {Num(-1), Num(0), Num(95), Num(96), Num(97),
                  NumAndHalf(-1), NumAndHalf(3), NumAndHalf(95), NumAndHalf(96)}

NextSquare ==
    \/ Connect("s1")
    \/ \E name \in RawNames : StudentJoin("s1", name, Undefined, Undefined, TRUE)
    \/ StudentAnswer("s1", Num(1), TRUE)
    \/ /\ quizmasterSquare <= MaxLapSquare \/ quizmasterSquare >= BoardSize - 1
       /\ \E nextPhase \in {2, 3} : AdvancePhase("s1", nextPhase, 0, List(<<2>>))
    \/ \E square \in {Undefined} \cup SquareNumbers :
          AdminAdjustQuizmasterSquare("s1", square, TRUE)
    \/ RestartGame("s1")

SpecSquare == Init /\ [][NextSquare]_vars

\* Renaming: students who joined with and without a square and answered are
\* renamed by the teacher on s1, by their id, by an unknown id and without id.
NextRename ==
    \/ DoConnect
    \/ JoinFrom(RawNames, {Undefined}, {Undefined, Num(6)}, {TRUE})
    \/ AnswerFrom({Num(1)}, {TRUE})
    \/ \E id \in {Undefined, Id("s1"), Id("s2"), Id("zz")} : ReplaceStudentName("s1", id)
    \/ \E s \in Sockets : Disconnect(s, "ping timeout")
    \/ TimerFire

SpecRename == Init /\ [][NextRename]_vars

\* Resuming: both sockets join as "a" under two names, with and without a
\* square to resume from, while "a" is moved, adjusted and renamed.
NextResume ==
    \/ DoConnect
    \/ \E s \in Sockets, name \in {Str(<<65>>), Str(<<66>>)},
          square \in {Undefined, Num(-1), Num(5)} :
          StudentJoin(s, name, Id("a"), square, TRUE)
    \/ StudentMove("s1", Undefined, Undefined, Num(6), TRUE)
    \/ AdminAdjustSquare("s2", Id("a"), Num(7), TRUE)
    \/ ReplaceStudentName("s2", Id("a"))
    \/ \E s \in Sockets : Disconnect(s, "ping timeout")
    \/ TimerFire

SpecResume == Init /\ [][NextResume]_vars

\* Replay sessions and cleanups across restarts: the teacher on s1 loads the
\* quiz files q1 (9 characters) and q2 (8 characters) and restarts; each
\* createGameSession settles at any later time; s1 also joins and answers,
\* which is logged for the session, and drops with a cleanup pending; a
\* second connection s2 restarts as well.
QuizOf(f) == Content(IF f = "q1" THEN 9 ELSE 8)

NextSession ==
    \/ DoConnect
    \/ \E f \in {"q1", "q2"} : LoadQuizMd("s1", QuizOf(f), Text(f))
    \/ DoSettle
    \/ \E name \in RawNames : StudentJoin("s1", name, Undefined, Undefined, TRUE)
    \/ StudentAnswer("s1", Num(1), TRUE)
    \/ \E s \in Sockets : Disconnect(s, "ping timeout")
    \/ TimerFire
    \/ DoRestartGame

SpecSession == InitIn({{"DATABASE_URL"}}) /\ [][NextSession]_vars

\* Cleanup in the long run: sockets join under their own id or a supplied
\* one and disconnect; a timer that is pending fires in the end (setTimeout).
NextCleanup ==
    \/ DoConnect
    \/ JoinFrom(RawNames, StudentIdInputs, {Undefined}, {TRUE})
    \/ \E s \in Sockets : Disconnect(s, "ping timeout")
    \/ TimerFire

SpecCleanup == Init /\ [][NextCleanup]_vars /\ WF_vars(TimerFire)

(***************************************************************************)
(* utils.js: rateLimit(socketId, event, maxPerSec) on its own, called for  *)
(* two sockets and two events, at times half a window apart.               *)
(***************************************************************************)
WindowMs == 1000
MaxElapses == 2
MaxWindowLen == 3

\* the callers: two events of s1 and one of s2
RateCallers == {<<"s1", "student-join">>, <<"s1", "student-answer">>,
                <<"s2", "student-join">>}

\* rateLimits[socketId][event], [] when missing
TimestampsOf(limits, socketId, event) ==
    IF <<socketId, event>> \in DOMAIN limits THEN limits[<<socketId, event>>] ELSE <<>>

\* Mutant: a call made exactly one second ago still counts.
rateLimitWindowClosed(timestamps, t) ==
    Append(SelectSeq(timestamps, LAMBDA ts : t - ts <= WindowMs), t)

\* .filter(ts => now - ts < 1000) and .push(now)
rateLimitWindow(timestamps, t) ==
    Append(SelectSeq(timestamps, LAMBDA ts : t - ts < WindowMs), t)

\* the call rateLimit(socketId, event, maxPerSec) at Date.now() = now
RateLimit(socketId, event, maxPerSec) ==
    LET window == rateLimitWindow(TimestampsOf(rateLimits, socketId, event), now)
    IN  /\ Len(window) <= MaxWindowLen
        /\ rateLimits' = MapSet(rateLimits, <<socketId, event>>, window)
        /\ lastEvent' = [kind |-> "rateLimit", socketId |-> socketId, event |-> event,
                         maxPerSec |-> maxPerSec, result |-> ~(Len(window) > maxPerSec)]
        /\ emitted' = <<>>
        /\ logged' = <<>>
        /\ calls' = <<>>
        /\ UNCHANGED <<students, socketToStudent, answers, disconnectTimers, timers,
                       quizVars, quizmasterVars, recorded, env, currentGameSession,
                       pendingSessions, twin, connected, now>>

\* half a window passes
Elapse ==
    /\ now < MaxElapses * (WindowMs \div 2)
    /\ now' = now + WindowMs \div 2
    /\ UNCHANGED <<gameVars, connected, lastEvent, emitted, logged, calls>>

NextRateLimit ==
    \/ \E caller \in RateCallers, maxPerSec \in {1, 2} :
          RateLimit(caller[1], caller[2], maxPerSec)
    \/ Elapse

SpecRateLimit == Init /\ [][NextRateLimit]_vars

(***************************************************************************)
(* Two runs of the server on the same events.  The first run has every     *)
(* service configured and every call succeeds; each of its steps is noted  *)
(* in twin.hist: the event, the live state and what the clients were sent. *)
(* Then the process starts again, with nothing configured or with every    *)
(* call failing, and is given the noted events one by one.                 *)
(***************************************************************************)
MaxRunLen == 5

\* the live game state
LiveState == <<students, socketToStudent, answers, disconnectTimers, timers, currentQuiz,
               currentPhase, currentQuestionIdx, quizmasterEnabled, quizmasterName,
               quizmasterSquare, quizmasterSquareHalves, connected, now>>

\* what the last handler sent to clients (the diagnostic record goes to the
\* webhook)
ClientEmissions ==
    IF lastEvent.kind = "none" THEN <<>> ELSE SelectSeq(emitted, LAMBDA m : m.to # "webhook")

\* the last step has been noted
Noted == lastEvent.kind = "none" /\ now = twin.now

\* every collaborator call of the step ends as ok says
Outcomes(ok) == \A i \in DOMAIN calls' : "ok" \in DOMAIN calls'[i] => calls'[i].ok = ok

\* the events of a run: one teacher and student on s1
ReplayEvents(ok) ==
    /\ \/ Connect("s1")
       \/ Tick
       \/ LoadQuizMd("s1", Content(9), Text("q1"))
       \/ SessionSettles("q1", ok)
       \/ \E name \in RawNames : StudentJoin("s1", name, Undefined, Undefined, TRUE)
       \/ StudentAnswer("s1", Num(1), TRUE)
       \/ StudentMove("s1", Undefined, Undefined, Num(6), TRUE)
       \/ AdvancePhase("s1", 2, 1, Undefined)
       \/ Disconnect("s1", "ping timeout")
       \/ TimerFire
       \/ RestartGame("s1")
    /\ Outcomes(ok)

\* b is the event a, whatever the outcome of a settled createGameSession
SameEvent(a, b) ==
    IF a.kind = "session-settled"
    THEN b.kind = "session-settled" /\ b.filename = a.filename
    ELSE a = b

FirstRunStep ==
    /\ twin.mode = "first"
    /\ Noted
    /\ Len(twin.hist) < MaxRunLen
    /\ ReplayEvents(TRUE)

Note ==
    /\ twin.mode = "first"
    /\ ~Noted
    /\ twin' = [twin EXCEPT !.now = now,
                            !.hist = Append(@, [event |-> IF lastEvent.kind = "none"
                                                          THEN [kind |-> "tick"]
                                                          ELSE lastEvent,
                                                live |-> LiveState,
                                                out |-> ClientEmissions,
                                                calls |-> calls])]
    /\ lastEvent' = [kind |-> "none"]
    /\ UNCHANGED <<students, socketToStudent, answers, disconnectTimers, timers, quizVars,
                   quizmasterVars, recorded, env, currentGameSession, pendingSessions,
                   connected, now, emitted, logged, calls, rateLimits>>

\* the process starts again
SecondRunStarts ==
    /\ twin.mode = "first"
    /\ Noted
    /\ twin.hist # <<>>
    /\ twin' = [twin EXCEPT !.mode = "second", !.pos = 1, !.now = 0]
    /\ env' \in {{}, EnvNames}
    /\ students' = <<>>
    /\ socketToStudent' = EmptyMap
    /\ answers' = EmptyMap
    /\ disconnectTimers' = EmptyMap
    /\ timers' = <<>>
    /\ currentQuiz' = Null
    /\ currentPhase' = 1
    /\ currentQuestionIdx' = 0
    /\ quizmasterEnabled' = TRUE
    /\ quizmasterName' = MathDad
    /\ quizmasterSquare' = 0
    /\ quizmasterSquareHalves' = 0
    /\ connected' = {}
    /\ now' = 0
    /\ lastEvent' = [kind |-> "none"]
    /\ emitted' = <<>>
    /\ logged' = <<>>
    /\ recorded' = EmptyMap
    /\ currentGameSession' = Null
    /\ pendingSessions' = {}
    /\ calls' = <<>>
    /\ UNCHANGED rateLimits

\* the second run gets the next noted event; without DATABASE_URL the
\* callback of createGameSession gets null and does nothing
SecondRunStep ==
    /\ twin.mode = "second"
    /\ Noted
    /\ twin.pos <= Len(twin.hist)
    /\ LET e == twin.hist[twin.pos].event
       IN IF e.kind = "tick"
          THEN Tick
          ELSE IF e.kind = "session-settled" /\ e.filename \notin pendingSessions
          THEN Ignored(e) /\ UNCHANGED <<connected, now>>
          ELSE ReplayEvents(FALSE) /\ SameEvent(e, lastEvent')

Compare ==
    /\ twin.mode = "second"
    /\ ~Noted
    /\ twin' = [twin EXCEPT !.now = now, !.pos = @ + 1]
    /\ lastEvent' = [kind |-> "none"]
    /\ UNCHANGED <<students, socketToStudent, answers, disconnectTimers, timers, quizVars,
                   quizmasterVars, recorded, env, currentGameSession, pendingSessions,
                   connected, now, emitted, logged, calls, rateLimits>>

NextReplay ==
    \/ FirstRunStep
    \/ Note
    \/ SecondRunStarts
    \/ SecondRunStep
    \/ Compare

SpecReplay == InitIn({EnvNames}) /\ [][NextReplay]_vars


(***************************************************************************)
(* Properties.                                                             *)
(***************************************************************************)
\* the student-join of socket s is accepted and finds a cleanup pending for its id
RejoinStep(s, name, student_id, square) ==
    /\ StudentJoin(s, name, student_id, square, TRUE)
    /\ sanitizeName(name) # <<>>
    /\ ResolveStudentId(s, student_id) \in DOMAIN disconnectTimers

\* C1 as stated: a rejoin before the grace timer fires cancels that timer, so
\* the identity is not purged by it, and leaves the identity's square and
\* joinedAt as they were.
C1RejoinKeepsSquare ==
    [][\A s \in Sockets, name \in RawNames, student_id \in StudentIdInputs,
          square \in SquareInputs :
          LET id == ResolveStudentId(s, student_id)
          IN RejoinStep(s, name, student_id, square)
             => /\ disconnectTimers[id] \notin LiveHandles'
                /\ id \notin DOMAIN disconnectTimers'
                /\ HasStudent(id)'
                /\ GetStudent(id)'.joinedAt = GetStudent(id).joinedAt
                /\ GetStudent(id)'.square = GetStudent(id).square]_vars

\* C1 amended: the rejoin cancels the timer and keeps joinedAt; it keeps the
\* square when the payload has no number square >= 0, and otherwise sets the
\* square to the payload's.
C1RejoinCancelsCleanup ==
    [][\A s \in Sockets, name \in RawNames, student_id \in StudentIdInputs,
          square \in SquareInputs :
          LET id == ResolveStudentId(s, student_id)
          IN RejoinStep(s, name, student_id, square)
             => /\ disconnectTimers[id] \notin LiveHandles'
                /\ id \notin DOMAIN disconnectTimers'
                /\ HasStudent(id)'
                /\ GetStudent(id)'.joinedAt = GetStudent(id).joinedAt
                /\ GetStudent(id)'.square =
                      IF ResumeSquare(square) # Null THEN square.val
                      ELSE GetStudent(id).square]_vars

\* a student who joined at square 5 earlier has just rejoined without a square,
\* which cancelled its cleanup
C1Witness ==
    /\ lastEvent.kind = "student-join"
    /\ lastEvent.square = Undefined
    /\ \E i \in DOMAIN logged :
          /\ logged[i].line = "cancelled-cleanup"
          /\ HasStudent(logged[i].studentId)
          /\ GetStudent(logged[i].studentId).square = 5
          /\ GetStudent(logged[i].studentId).joinedAt < now

\* the identities whose answer on record is idx
Voters(ss, ans, idx) ==
    {k \in {ss[i].id : i \in DOMAIN ss} \cap DOMAIN ans : ans[k] = idx}

\* every student-list and vote-counts among the events out lists the
\* registered identities ss and the answers ans of registered identities
ViewsOf(out, ss, ans) ==
    \A i \in DOMAIN out :
        /\ out[i].event = "student-list"
              => {out[i].data[j].id : j \in DOMAIN out[i].data} = {ss[j].id : j \in DOMAIN ss}
        /\ out[i].event = "vote-counts"
              => /\ DOMAIN out[i].data = {idx \in 0..3 : Voters(ss, ans, idx) # {}}
                 /\ \A idx \in DOMAIN out[i].data :
                       out[i].data[idx] = Cardinality(Voters(ss, ans, idx))

\* C2: a grace timer that fires removes its identity from students and from
\* answers and broadcasts both views; every snapshot and tally sent from then
\* on lists registered identities only.
C2GraceExpiryPurges ==
    [][/\ TimerFire
          => LET id == Head(timers).studentId
             IN /\ id \notin StudentKeys'
                /\ id \notin DOMAIN answers'
                /\ Len(emitted') = 2
                /\ emitted'[1].event = "student-list"
                /\ emitted'[2].event = "vote-counts"
       /\ ViewsOf(emitted', students', answers')]_vars

\* a timer has just purged an identity that had an answer on record
C2Witness ==
    /\ lastEvent.kind = "timer"
    /\ logged # <<>>
    /\ logged[1].line = "grace-expired"
    /\ logged[1].hadAnswer
    /\ lastEvent.studentId \notin StudentKeys
    /\ lastEvent.studentId \notin DOMAIN answers

\* C3 as stated: a disconnect with the reason of an explicit client departure
\* that leaves the identity without connections removes the identity and its
\* answer in the handler and leaves no timer for it.
C3DeliberatePurgesAtOnce ==
    [][\A s \in Sockets :
          LET id == LookupStudentId(s)
          IN (/\ Disconnect(s, DeliberateReason)
              /\ HasStudent(id)
              /\ GetStudent(id).sockets = {s})
             => /\ id \notin StudentKeys'
                /\ id \notin DOMAIN answers'
                /\ id \notin DOMAIN disconnectTimers']_vars

\* C4: no registered identity has a connection in its set and a cleanup
\* timer in disconnectTimers at once.
C4NoTimerWhileConnected ==
    \A i \in DOMAIN students :
        students[i].sockets # {} => students[i].id \notin DOMAIN disconnectTimers

\* a rejoin has just cancelled a cleanup: the identity has a connection again
C4Witness ==
    \E i \in DOMAIN logged :
        /\ logged[i].line = "cancelled-cleanup"
        /\ HasStudent(logged[i].studentId)
        /\ GetStudent(logged[i].studentId).sockets # {}

\* C5: at most one timer is pending per identity, and it is the one
\* disconnectTimers holds for that identity.
C5OneTimerPerIdentity ==
    /\ \A i, j \in DOMAIN timers : timers[i].studentId = timers[j].studentId => i = j
    /\ \A i \in DOMAIN timers :
          /\ timers[i].studentId \in DOMAIN disconnectTimers
          /\ disconnectTimers[timers[i].studentId] = timers[i].handle

\* a disconnect has just started a timer while another identity's is pending
C5Witness ==
    /\ lastEvent.kind = "disconnect"
    /\ logged # <<>>
    /\ logged[1].line = "scheduling-cleanup"
    /\ Len(timers) = 2

\* C6: a timer that fires while its identity has a connection changes neither
\* students nor answers; a firing timer leaves every identity that has a
\* connection, and its answer, as they were; and an identity that has a
\* connection leaves students only by restart-game.
C6FireTimeDecision ==
    [][/\ (TimerFire /\ ~CleanupDue(Head(timers).studentId))
          => UNCHANGED <<students, answers>>
       /\ TimerFire
          => \A i \in DOMAIN students :
                students[i].sockets # {}
                   => /\ \E j \in DOMAIN students' : students'[j] = students[i]
                      /\ students[i].id \in DOMAIN answers
                            => /\ students[i].id \in DOMAIN answers'
                               /\ answers'[students[i].id] = answers[students[i].id]
       /\ \A i \in DOMAIN students :
             (students[i].sockets # {} /\ students[i].id \notin StudentKeys')
                => \E s \in Sockets : RestartGame(s)]_vars

\* a timer has just fired and purged its identity beside an identity that has
\* a connection and an answer
C6Witness ==
    /\ lastEvent.kind = "timer"
    /\ lastEvent.studentId \notin StudentKeys
    /\ \E i \in DOMAIN students :
          /\ students[i].sockets # {}
          /\ students[i].id \in DOMAIN answers

\* C7: every key of answers is the id of a registered identity.
C7AnswersOfRegistered == DOMAIN answers \subseteq StudentKeys

\* an identity with an answer was purged and another identity's answer remains
C7Witness ==
    /\ logged # <<>>
    /\ logged[1].line = "grace-expired"
    /\ logged[1].hadAnswer
    /\ answers # EmptyMap

\* C8 as stated: no connection id is in the connection sets of two identities.
C8OneIdentityPerConnection ==
    \A i, j \in DOMAIN students :
        i # j => students[i].sockets \cap students[j].sockets = {}

\* C9 as stated: after an advance-phase event the answers map is empty.
C9AdvanceClearsAnswers ==
    [][\A s \in Sockets, nextPhase \in {1, 2, 3}, nextQuestionIdx \in {0, 1},
          correctIdxs \in {Undefined, List(<<2>>)} :
          AdvancePhase(s, nextPhase, nextQuestionIdx, correctIdxs)
             => answers' = EmptyMap]_vars

\* C10: the vote-counts sent for an accepted student-answer gives, for each
\* index 0..3, the number of identities whose most recent accepted answer is
\* that index, and has no entry for an index nobody holds.
C10VoteTally ==
    lastEvent.kind = "student-answer"
       => LET accepted == lastEvent.allowed
                          /\ ~AnswerRejected(lastEvent.answerIdx,
                                             LookupStudentId(lastEvent.socket))
          IN IF accepted
             THEN /\ Len(emitted) = 1
                  /\ emitted[1].event = "vote-counts"
                  /\ emitted[1].to = "all"
                  /\ \A idx \in 0..3 :
                        LET holders == {id \in DOMAIN recorded : recorded[id].idx = idx}
                        IN IF holders = {}
                           THEN idx \notin DOMAIN emitted[1].data
                           ELSE /\ idx \in DOMAIN emitted[1].data
                                /\ emitted[1].data[idx] = Cardinality(holders)
             ELSE emitted = <<>>

\* an identity has just replaced its answer, and two identities now hold 2
C10Witness ==
    /\ lastEvent.kind = "student-answer"
    /\ emitted # <<>>
    /\ recorded[LookupStudentId(lastEvent.socket)].replaced
    /\ emitted[1].data = (0 :> 1 @@ 2 :> 2)

\* the events of one kind among those a handler emitted
EmittedOf(event) == SelectSeq(emitted, LAMBDA e : e.event = event)

\* the square of the student registered as id in the entries ss
SquareOf(ss, id) == ss[CHOOSE i \in DOMAIN ss : ss[i].id = id].square

\* Every handler leaves its event in lastEvent, so the step of a handler is
\* that handler's action applied to the payload found there after the step.

\* C11: a student-move for a registered target with a valid roll and no valid
\* direct square sets the square to (s + roll) mod 96, which is in 0..95 also
\* when s was 96 or more; a student-move or admin-adjust-square with a direct
\* square q >= 0 sets the square to exactly q.
C11MoveWrapping ==
    [][LET e == lastEvent'
       IN /\ /\ e.kind = "student-move"
             /\ StudentMove(e.socket, e.roll, e.id, e.square, TRUE)
             /\ HasStudent(TargetId(e.socket, e.id))
             => LET t == TargetId(e.socket, e.id)
                IN /\ IsDirectSquare(e.square)
                      => SquareOf(students', t) = e.square.val
                   /\ ~IsDirectSquare(e.square) /\ IsDiceRoll(e.roll)
                      => /\ SquareOf(students', t)
                              = (SquareOf(students, t) + e.roll.val) % BoardSize
                         /\ SquareOf(students', t) \in 0..(BoardSize - 1)
          /\ /\ e.kind = "admin-adjust-square"
             /\ AdminAdjustSquare(e.socket, e.id, e.square, TRUE)
             /\ e.id # Undefined
             /\ IsDirectSquare(e.square)
             /\ HasStudent(e.id.val)
             => SquareOf(students', e.id.val) = e.square.val
      ]_vars

\* a dice roll has just moved a student from square 98 to square 8
C11Witness ==
    /\ lastEvent.kind = "student-move"
    /\ logged # <<>>
    /\ logged[1].line = "dice-roll"
    /\ logged[1].from = 98
    /\ logged[1].to = 8

\* C12: a student-move whose target is not registered, or which carries
\* neither a direct square >= 0 nor a roll in 1..6, changes neither students,
\* answers, timers nor the quizmaster, and emits no student-move-update and
\* no student-list.
C12InvalidMoveIsNoOp ==
    [][LET e == lastEvent'
       IN /\ e.kind = "student-move"
          /\ StudentMove(e.socket, e.roll, e.id, e.square, TRUE)
          /\ \/ ~HasStudent(TargetId(e.socket, e.id))
             \/ ~IsDirectSquare(e.square) /\ ~IsDiceRoll(e.roll)
          => /\ UNCHANGED <<students, answers, disconnectTimers, timers, quizmasterVars>>
             /\ EmittedOf("student-move-update")' = <<>>
             /\ EmittedOf("student-list")' = <<>>
      ]_vars

\* a move with a roll out of range was handled for a registered student who
\* stands on a square other than 0
C12Witness ==
    /\ lastEvent.kind = "student-move"
    /\ logged # <<>>
    /\ logged[1].line = "invalid-move"
    /\ lastEvent.roll = Num(7)
    /\ lastEvent.socket = "s2"
    /\ GetStudent(logged[1].targetId).square > 0

\* how many of the recorded answers are not among the correct indices
WrongAmong(ans, correct) ==
    Cardinality({k \in DOMAIN ans : ans[k] \notin {correct[i] : i \in DOMAIN correct}})

\* m is n/d rounded to the nearest integer, a half going up
RoundsTo(m, n, d) == (2 * m - 1) * d <= 2 * n /\ 2 * n < (2 * m + 1) * d

\* the step just taken is the advance-phase handler run on the event e
AdvanceStep(e) ==
    /\ e.kind = "advance-phase"
    /\ AdvancePhase(e.socket, e.nextPhase, e.nextQuestionIdx, e.correctIdxs)

\* C13: an advance-phase handled when currentPhase is not 2, or whose
\* nextPhase is not 3, leaves quizmasterSquare as it was and emits no
\* quizmaster-state, whatever the answers and correctIdxs are.
C13MoveOnlyFromTwoToThree ==
    [][LET e == lastEvent'
       IN AdvanceStep(e) /\ (currentPhase # 2 \/ e.nextPhase # 3)
          => /\ quizmasterSquare' = quizmasterSquare
             /\ EmittedOf("quizmaster-state")' = <<>>
      ]_vars

\* an advance into phase 2 was handled with a list of correct indices while
\* every recorded answer was wrong, and the quizmaster has not moved
C13Witness ==
    /\ lastEvent.kind = "advance-phase"
    /\ lastEvent.nextPhase = 2
    /\ lastEvent.correctIdxs = List(<<2>>)
    /\ answers # EmptyMap
    /\ \A k \in DOMAIN answers : answers[k] = 1
    /\ quizmasterSquare = 0
    /\ EmittedOf("quizmaster-state") = <<>>

\* C14: on an advance 2 -> 3 with T > 0 recorded answers of which W are not
\* in correctIdxs, the move is 6W/T rounded, a half going up; a move above 0
\* takes quizmasterSquare to (quizmasterSquare + move) mod 96 and is followed
\* by one quizmaster-state broadcast, whether or not the quizmaster is
\* enabled; a move of 0 changes nothing and broadcasts nothing.
C14MoveIsRoundedRatio ==
    [][LET e == lastEvent'
       IN /\ AdvanceStep(e)
          /\ currentPhase = 2
          /\ e.nextPhase = 3
          /\ e.correctIdxs.type = "array"
          /\ answers # EmptyMap
          => \E m \in 0..6 :
                /\ RoundsTo(m, 6 * WrongAmong(answers, e.correctIdxs.val),
                            Cardinality(DOMAIN answers))
                /\ IF m > 0
                   THEN /\ quizmasterSquare' = (quizmasterSquare + m) % BoardSize
                        /\ EmittedOf("quizmaster-state")'
                             = <<broadcastQuizmasterState(quizmasterEnabled, quizmasterName,
                                                          quizmasterSquare')>>
                   ELSE /\ quizmasterSquare' = quizmasterSquare
                        /\ EmittedOf("quizmaster-state")' = <<>>
      ]_vars

\* one wrong answer out of four (6W/T = 1.5) has moved the disabled
\* quizmaster by 2 and the new state was broadcast
C14Witness ==
    /\ lastEvent.kind = "advance-phase"
    /\ logged = <<[line |-> "quizmaster", total |-> 4, wrong |-> 1, move |-> 2,
                   enabled |-> FALSE]>>
    /\ emitted[1].event = "quizmaster-state"
    /\ emitted[1].data.enabled = FALSE
    /\ emitted[1].data.square = quizmasterSquare

\* C15: on an advance 2 -> 3 with no recorded answer, or with correctIdxs
\* missing, or with correctIdxs an empty list, quizmasterSquare is unchanged
\* and the advance emits no quizmaster-state.
C15NoMoveWithoutCorrectIdxs ==
    [][LET e == lastEvent'
       IN /\ AdvanceStep(e)
          /\ currentPhase = 2
          /\ e.nextPhase = 3
          /\ \/ answers = EmptyMap
             \/ e.correctIdxs = Undefined
             \/ e.correctIdxs = List(<<>>)
          => /\ quizmasterSquare' = quizmasterSquare
             /\ EmittedOf("quizmaster-state")' = <<>>
      ]_vars

\* the move of the advance-phase event e as a function of the answers, the
\* phase and the event alone
MoveWithoutFlag(e) ==
    IF /\ currentPhase = 2
       /\ e.nextPhase = 3
       /\ e.correctIdxs.type = "array"
       /\ answers # EmptyMap
    THEN CHOOSE m \in 0..6 :
            RoundsTo(m, 6 * WrongAmong(answers, e.correctIdxs.val),
                     Cardinality(DOMAIN answers))
    ELSE 0

\* C16: the enabled flag never affects movement.  Two runs fed the same
\* events except for their admin-toggle-quizmaster events have the same
\* quizmasterSquare after every event, because: a toggle changes nothing but
\* the flag; nothing else changes the flag; and the square after every step
\* is a function of the event, the answers, the phase and the square before,
\* in which the flag does not occur.
C16FlagNeverAffectsMovement ==
    [][LET e == lastEvent'
       IN /\ /\ e.kind = "admin-toggle-quizmaster"
             /\ AdminToggleQuizmaster(e.socket, e.enabled, e.allowed)
             => UNCHANGED <<students, socketToStudent, answers, disconnectTimers,
                            timers, quizVars, quizmasterName, quizmasterSquare>>
          /\ quizmasterEnabled' # quizmasterEnabled
             => e.kind = "admin-toggle-quizmaster"
          /\ AdvanceStep(e)
             => quizmasterSquare' = (quizmasterSquare + MoveWithoutFlag(e)) % BoardSize
          /\ quizmasterSquare' # quizmasterSquare
             => \/ e.kind = "advance-phase"
                \/ e.kind = "restart-game" /\ quizmasterSquare' = 0
                \/ /\ e.kind = "admin-adjust-quizmaster-square"
                   /\ quizmasterSquare' = e.square.val
      ]_vars

\* the quizmaster, switched off, has just been moved by an advance 2 -> 3
C16Witness ==
    /\ lastEvent.kind = "advance-phase"
    /\ logged # <<>>
    /\ logged[1].line = "quizmaster"
    /\ logged[1].move = 3
    /\ ~logged[1].enabled
    /\ ~quizmasterEnabled
    /\ quizmasterSquare > 0

\* the step just taken is the restart-game handler run on the event e
RestartStep(e) == e.kind = "restart-game" /\ RestartGame(e.socket)

\* C17: right after restart-game is handled, from any reachable state,
\* students, socketToStudent, answers and disconnectTimers are empty,
\* quizmasterSquare is 0, currentQuiz is null, currentPhase is 1 and
\* currentQuestionIdx is 0.
C17RestartClearsEverything ==
    [][RestartStep(lastEvent')
       => /\ students' = <<>>
          /\ socketToStudent' = EmptyMap
          /\ answers' = EmptyMap
          /\ disconnectTimers' = EmptyMap
          /\ quizmasterSquare' = 0
          /\ currentQuiz' = Null
          /\ currentPhase' = 1
          /\ currentQuestionIdx' = 0
      ]_vars

\* restart-game has been handled in a game that was under way (both sockets
\* are connected, the quizmaster was renamed and switched off) and has left
\* the cleared state
C17Witness ==
    /\ lastEvent.kind = "restart-game"
    /\ connected = Sockets
    /\ quizmasterName # MathDad
    /\ ~quizmasterEnabled
    /\ students = <<>>
    /\ socketToStudent = EmptyMap
    /\ answers = EmptyMap
    /\ disconnectTimers = EmptyMap
    /\ timers = <<>>
    /\ currentQuiz = Null
    /\ currentPhase = 1
    /\ currentQuestionIdx = 0
    /\ quizmasterSquare = 0

\* C18: restart-game leaves quizmasterName and quizmasterEnabled as they
\* were and emits to all clients, in this order, an empty student-list, an
\* empty vote-counts, a quizmaster-state with square 0 and the game-restarted
\* signal.
C18RestartKeepsQuizmasterIdentity ==
    [][RestartStep(lastEvent')
       => /\ quizmasterName' = quizmasterName
          /\ quizmasterEnabled' = quizmasterEnabled
          /\ emitted' = << Emit("student-list", "all", <<>>),
                           Emit("vote-counts", "all", EmptyMap),
                           Emit("quizmaster-state", "all",
                                [enabled |-> quizmasterEnabled, name |-> quizmasterName,
                                 square |-> 0]),
                           Emit("game-restarted", "all", Undefined) >>
      ]_vars

\* restart-game has been handled with the quizmaster renamed and switched
\* off, and its broadcast shows that name and flag with square 0
C18Witness ==
    /\ lastEvent.kind = "restart-game"
    /\ quizmasterName = <<81, 32, 77>>
    /\ ~quizmasterEnabled
    /\ Len(emitted) = 4
    /\ emitted[3].data = [enabled |-> FALSE, name |-> <<81, 32, 77>>, square |-> 0]
    /\ emitted[4].event = "game-restarted"

\* what the last handler sent to all clients under one event name
Broadcasts(event) == SelectSeq(emitted, LAMBDA e : e.event = event /\ e.to = "all")

\* a handler has kept a view true: the last broadcast it made of the view, if
\* any, shows the view as the handler left it, and it made one if it changed
\* the view
ViewKept(sent, before, after) ==
    /\ sent # <<>> => sent[Len(sent)].data = after
    /\ after # before => sent # <<>>

QuizmasterView == [enabled |-> quizmasterEnabled, name |-> quizmasterName,
                   square |-> quizmasterSquare]

\* C19: after every handler or timer callback the most recent student-list
\* broadcast equals the snapshot of students, the most recent vote-counts
\* equals the tally of answers and the most recent quizmaster-state equals
\* the quizmaster's enabled/name/square, once the view has changed: every
\* step that changes a view broadcasts it afterwards, and every broadcast of
\* a view shows it as the step leaves it.
C19ViewsFollowState ==
    [][/\ ViewKept(Broadcasts("student-list")', snapshot(students), snapshot(students'))
       /\ ViewKept(Broadcasts("vote-counts")', tally(answers), tally(answers'))
       /\ ViewKept(Broadcasts("quizmaster-state")', QuizmasterView, QuizmasterView')
      ]_vars

\* a grace timer has purged one student while another, moved and renamed,
\* stays with an answer; the two broadcasts show the list and the tally left
C19Witness ==
    /\ lastEvent.kind = "timer"
    /\ students # <<>>
    /\ students[1].name = TroubleName
    /\ students[1].square = 6
    /\ answers # EmptyMap
    /\ quizmasterSquare = 6
    /\ Broadcasts("student-list") = <<broadcastStudentList(students)>>
    /\ Broadcasts("vote-counts") = <<broadcastVotes(answers)>>

\* the events whose handlers begin with a rateLimit test
RateLimitedKinds ==
    {"student-join", "student-move", "student-answer", "admin-adjust-square",
     "admin-toggle-quizmaster", "admin-set-quizmaster-name",
     "admin-adjust-quizmaster-square"}

\* the step just taken is the handler of the rate-limited kind of event e,
\* run on e
HandlerStep(e) ==
    CASE e.kind = "student-join" ->
            StudentJoin(e.socket, e.name, e.student_id, e.square, e.allowed)
      [] e.kind = "student-move" ->
            StudentMove(e.socket, e.roll, e.id, e.square, e.allowed)
      [] e.kind = "student-answer" ->
            StudentAnswer(e.socket, e.answerIdx, e.allowed)
      [] e.kind = "admin-adjust-square" ->
            AdminAdjustSquare(e.socket, e.id, e.square, e.allowed)
      [] e.kind = "admin-toggle-quizmaster" ->
            AdminToggleQuizmaster(e.socket, e.enabled, e.allowed)
      [] e.kind = "admin-set-quizmaster-name" ->
            AdminSetQuizmasterName(e.socket, e.name, e.allowed)
      [] e.kind = "admin-adjust-quizmaster-square" ->
            AdminAdjustQuizmasterSquare(e.socket, e.square, e.allowed)

\* C20: a rate-limited student-join, student-move, student-answer,
\* admin-adjust-square or admin quizmaster event changes neither students,
\* socketToStudent, answers, disconnectTimers, the pending timers, the quiz
\* pointers nor the quizmaster, and emits nothing; so a rate-limited rejoin
\* does not cancel a pending cleanup.
C20RateLimitedIsNoOp ==
    [][LET e == lastEvent'
       IN e.kind \in RateLimitedKinds /\ ~e.allowed /\ HandlerStep(e)
          => /\ UNCHANGED <<students, socketToStudent, answers, disconnectTimers, timers,
                            quizVars, quizmasterVars>>
             /\ emitted' = <<>>
      ]_vars

\* a rate-limited rejoin was handled for an identity whose cleanup is
\* pending, and the timer is still pending
C20Witness ==
    /\ lastEvent.kind = "student-join"
    /\ ~lastEvent.allowed
    /\ lastEvent.student_id = Id("a")
    /\ "a" \in DOMAIN disconnectTimers
    /\ \E i \in DOMAIN timers : timers[i].studentId = "a"
    /\ emitted = <<>>

\* the step just taken is the student-join handler run on the event e, which
\* passed the rate limit and has a name left after sanitizeName
JoinStep(e) ==
    /\ e.kind = "student-join"
    /\ e.allowed
    /\ sanitizeName(e.name) # <<>>
    /\ StudentJoin(e.socket, e.name, e.student_id, e.square, e.allowed)

\* C22: student-join never makes a second identity for an id that is
\* registered: it adds the socket to that identity's sockets and leaves its
\* joinedAt, its place in the list and every other entry as they were; an
\* entry is made, at square resumeSquare or 0, only when the id is unknown,
\* and no id ever has two entries.
C22JoinNeverDuplicates ==
    [][LET e == lastEvent'
           id == ResolveStudentId(e.socket, e.student_id)
       IN JoinStep(e)
          => /\ \A i, j \in DOMAIN students' :
                   students'[i].id = students'[j].id => i = j
             /\ IF HasStudent(id)
                THEN LET k == StudentIndex(id)
                     IN /\ Len(students') = Len(students)
                        /\ students'[k].id = id
                        /\ students'[k].joinedAt = students[k].joinedAt
                        /\ students'[k].sockets = students[k].sockets \cup {e.socket}
                        /\ snapshot(students')[k].joinedAt = snapshot(students)[k].joinedAt
                        /\ \A i \in DOMAIN students : i # k => students'[i] = students[i]
                ELSE students' =
                        Append(students,
                               [id |-> id, name |-> sanitizeName(e.name), joinedAt |-> now,
                                square |-> IF IsNumber(e.square) /\ e.square.val >= 0
                                           THEN e.square.val ELSE 0,
                                sockets |-> {e.socket}])
      ]_vars

\* identity "a", made at time 0 as the first of two, has just been joined at
\* time 1 by a second socket and is still first with joinedAt 0
C22Witness ==
    /\ lastEvent.kind = "student-join"
    /\ lastEvent.student_id = Id("a")
    /\ now = 1
    /\ Len(students) = 2
    /\ students[1].id = "a"
    /\ students[1].joinedAt = 0
    /\ students[1].sockets = Sockets
    /\ students[2].joinedAt = 1

\* C23: a student-join whose name is empty after sanitizeName changes
\* nothing: no identity is made, no socket is registered, no pending cleanup
\* is cancelled, and nothing is emitted.
C23EmptyNameIsNoOp ==
    [][LET e == lastEvent'
       IN /\ e.kind = "student-join"
          /\ sanitizeName(e.name) = <<>>
          /\ StudentJoin(e.socket, e.name, e.student_id, e.square, e.allowed)
          => /\ UNCHANGED <<students, socketToStudent, answers, disconnectTimers, timers,
                            quizVars, quizmasterVars>>
             /\ emitted' = <<>>
      ]_vars

\* a join as "a" with the name "\t " was handled while the cleanup of "a" was
\* pending: the timer is still pending and the socket is not registered
C23Witness ==
    /\ lastEvent.kind = "student-join"
    /\ lastEvent.name = Str(<<9, 32>>)
    /\ lastEvent.student_id = Id("a")
    /\ "a" \in DOMAIN disconnectTimers
    /\ \E i \in DOMAIN timers : timers[i].studentId = "a"
    /\ lastEvent.socket \notin DOMAIN socketToStudent
    /\ GetStudent("a").sockets = {}
    /\ emitted = <<>>

\* the ids of a student-list, in the order of the list
IdsOf(list) == [i \in DOMAIN list |-> list[i].id]

\* C27: the student-list names the identities in the order they were made.
\* A join of an unknown id puts it at the end, which is also where an
\* identity that was purged and is made again goes; a purge takes one id out
\* and keeps the order of the others; a restart empties the list; every
\* other step (a rejoin, a move, a rename, an answer) leaves the order as it
\* was.  So the list is always in
\* the order of joinedAt.
C27ListInCreationOrder ==
    [][LET e == lastEvent'
           before == IdsOf(snapshot(students))
           after == IdsOf(snapshot(students'))
       IN /\ \/ after = before
             \/ /\ e.kind = "student-join"
                /\ ~HasStudent(ResolveStudentId(e.socket, e.student_id))
                /\ after = Append(before, ResolveStudentId(e.socket, e.student_id))
             \/ /\ e.kind = "timer"
                /\ after = SelectSeq(before, LAMBDA id : id # e.studentId)
             \/ /\ e.kind = "restart-game"
                /\ after = <<>>
          /\ \A i, j \in DOMAIN students' :
                i < j => snapshot(students')[i].joinedAt <= snapshot(students')[j].joinedAt
      ]_vars

\* the first of two identities has been moved, has answered, has just been
\* renamed, and is still the first of the list
C27Witness ==
    /\ lastEvent.kind = "replace-student-name"
    /\ Len(students) = 2
    /\ students[1].name = TroubleName
    /\ students[1].square = 6
    /\ students[1].id \in DOMAIN answers
    /\ students[2].square = 0
    /\ students[1].joinedAt < students[2].joinedAt
    /\ emitted = <<broadcastStudentList(students)>>
    /\ emitted[1].data[1].id = students[1].id

\* C28: cancelling is idempotent and a purge happens once.  A join for an id
\* that has no cleanup pending (none was started, it was cancelled before, or
\* its timer has fired) leaves disconnectTimers and the pending timers as
\* they are; so does a restart when no cleanup is pending.  A timer that
\* fires removes its identity only if that identity is registered with no
\* socket, and otherwise removes nothing and emits nothing; after it has
\* fired no timer and no disconnectTimers entry is left for that id, so the
\* identity cannot be removed a second time.
C28CancellationIsIdempotent ==
    [][LET e == lastEvent'
       IN /\ /\ JoinStep(e)
             /\ ResolveStudentId(e.socket, e.student_id) \notin DOMAIN disconnectTimers
             => UNCHANGED <<disconnectTimers, timers>>
          /\ RestartStep(e) /\ disconnectTimers = EmptyMap
             => UNCHANGED <<disconnectTimers, timers>>
          /\ e.kind = "timer" /\ TimerFire
             => /\ ~CleanupDue(e.studentId)
                   => UNCHANGED <<students, answers>> /\ emitted' = <<>>
                /\ CleanupDue(e.studentId)
                   => students' = DeleteStudent(students, e.studentId)
                /\ e.studentId \notin DOMAIN disconnectTimers'
                /\ \A i \in DOMAIN timers' : timers'[i].studentId # e.studentId
      ]_vars

\* socket s2 has joined under its own id, for which no cleanup was pending,
\* while the cleanup of "a" is pending: that timer is still pending
C28Witness ==
    /\ lastEvent.kind = "student-join"
    /\ lastEvent.socket = "s2"
    /\ logged = <<>>
    /\ HasStudent("s2")
    /\ DOMAIN disconnectTimers = {"a"}
    /\ Len(timers) = 1
    /\ timers[1] = [handle |-> disconnectTimers["a"], studentId |-> "a"]

\* C29: load-quiz-md with a string of at most 100,000 characters replaces
\* currentQuiz, sets currentPhase to 1 and currentQuestionIdx to 0, sends
\* quiz-md-loaded to all and nothing else, and leaves students, answers, the
\* timers and the quizmaster as they were; content that is not a string, or
\* is longer, changes nothing and sends nothing.
C29LoadQuizReplacesQuiz ==
    [][LET e == lastEvent'
       IN e.kind = "load-quiz-md" /\ LoadQuizMd(e.socket, e.content, e.filename)
          => IF e.content.type = "string" /\ e.content.len <= MaxQuizLen
             THEN /\ currentQuiz' = [content |-> e.content]
                  /\ currentPhase' = 1
                  /\ currentQuestionIdx' = 0
                  /\ emitted' = <<Emit("quiz-md-loaded", "all", [content |-> e.content])>>
                  /\ UNCHANGED <<students, socketToStudent, answers, disconnectTimers,
                                 timers, quizmasterVars>>
             ELSE /\ UNCHANGED <<students, socketToStudent, answers, disconnectTimers,
                                 timers, quizVars, quizmasterVars>>
                  /\ emitted' = <<>>
      ]_vars

\* a quiz of 9 characters has just been loaded over an earlier one while a
\* student had an answer on record, a cleanup was pending and the quizmaster
\* stood on 95: all of that is still there, and the phase is 1
C29Witness ==
    /\ lastEvent.kind = "load-quiz-md"
    /\ lastEvent.content = Content(9)
    /\ currentQuiz = [content |-> Content(9)]
    /\ currentPhase = 1
    /\ currentQuestionIdx = 0
    /\ answers # EmptyMap
    /\ timers # <<>>
    /\ quizmasterSquare = 95
    /\ emitted = <<Emit("quiz-md-loaded", "all", [content |-> Content(9)])>>

\* the step just taken is the disconnect handler run on the event e
DisconnectStep(e) == e.kind = "disconnect" /\ Disconnect(e.socket, e.reason)

\* C24: every disconnect hands exactly one diagnostic record to
\* sendDisconnectWebhook, whether the socket never joined, its identity keeps
\* other sockets, or its identity is left with none; the record names the
\* socket and the reason and tells which of the three it was.
C24OneRecordPerDisconnect ==
    [][LET e == lastEvent'
           id == LookupStudentId(e.socket)
       IN DisconnectStep(e)
          => /\ Len(emitted') = 1
             /\ emitted'[1].event = "disconnect-info"
             /\ emitted'[1].data.socketId = Id(e.socket)
             /\ emitted'[1].data.reason = Text(e.reason)
             /\ emitted'[1].data.hadStudentRecord = Bool(HasStudent(id))
             /\ emitted'[1].data.remainingSockets =
                   Num(IF HasStudent(id)
                       THEN Cardinality(GetStudent(id).sockets \ {e.socket}) ELSE 0)
      ]_vars

\* a socket that never joined has disconnected while "a" is registered, and
\* one record was made for it, with no student
C24Witness ==
    /\ lastEvent.kind = "disconnect"
    /\ HasStudent("a")
    /\ Len(emitted) = 1
    /\ emitted[1].event = "disconnect-info"
    /\ emitted[1].data.socketId = Id(lastEvent.socket)
    /\ emitted[1].data.hadStudentRecord = Bool(FALSE)
    /\ emitted[1].data.studentId = Null
    /\ emitted[1].data.student = Str(UnknownName)

\* C26: for each record sendDisconnectWebhook makes one POST request with the
\* JSON text of the record when DISCONNECT_WEBHOOK is set and no request when
\* it is not; whether the request fails or not, the disconnect handler goes
\* on: the socket is dropped and the cleanup is scheduled when the identity
\* is left without sockets.
C26WebhookPostsOnce ==
    [][LET e == lastEvent'
           id == LookupStudentId(e.socket)
       IN DisconnectStep(e)
          => /\ IF "DISCONNECT_WEBHOOK" \in env
                THEN /\ Len(calls') = 1
                     /\ calls'[1].fn = "fetch"
                     /\ calls'[1].method = "POST"
                     /\ calls'[1].url = "DISCONNECT_WEBHOOK"
                     /\ calls'[1].body = JSONStringify(emitted'[1].data)
                ELSE calls' = <<>>
             /\ e.socket \notin DOMAIN socketToStudent'
             /\ HasStudent(id) /\ GetStudent(id).sockets \subseteq {e.socket}
                => /\ id \in DOMAIN disconnectTimers'
                   /\ \E i \in DOMAIN timers' :
                         timers'[i] = [handle |-> disconnectTimers'[id], studentId |-> id]
      ]_vars

\* the POST for the last socket of "a" has failed and the cleanup of "a" is
\* scheduled; the body has the record's keys but not lastPing, which is
\* undefined
C26Witness ==
    /\ lastEvent.kind = "disconnect"
    /\ Len(calls) = 1
    /\ ~calls[1].ok
    /\ calls[1].body.json.cleanupScheduled = Bool(TRUE)
    /\ "lastPing" \in DOMAIN emitted[1].data
    /\ "lastPing" \notin DOMAIN calls[1].body.json
    /\ "a" \in DOMAIN disconnectTimers
    /\ logged # <<>>
    /\ logged[1].line = "scheduling-cleanup"

\* the keys buildDisconnectInfo always sets
BaseKeys == {"timestamp", "student", "studentId", "socketId", "reason", "transport",
             "lastPing", "pingTimeout"}

\* C25: the record of buildDisconnectInfo has the base keys, with the
\* student, the socket id, the transport, lastPing and the time of the call;
\* pingTimeout is true exactly when the reason argument is 'ping timeout';
\* every context member that is not undefined is in the record with the
\* context's value, also under a base key; an undefined member adds no key
\* and leaves the base value (null for studentId).
C25RecordHasBaseAndContext ==
    lastEvent.kind = "built"
    => LET info == emitted[1].data
           context == lastEvent.context
           set == {key \in DOMAIN context : context[key] # Undefined}
       IN /\ DOMAIN info = BaseKeys \cup set
          /\ info.timestamp = IsoString(now)
          /\ info.student = lastEvent.studentName
          /\ info.socketId = Id(lastEvent.socket)
          /\ info.transport = Text("websocket")
          /\ info.lastPing = Undefined
          /\ info.pingTimeout = Bool(lastEvent.reason = Text("ping timeout"))
          /\ \A key \in set : info[key] = context[key]
          /\ "reason" \notin set => info.reason = lastEvent.reason
          /\ "studentId" \notin set => info.studentId = Null

\* a record built after a ping timeout at time 1, from a context whose
\* reason (null) replaced the argument, whose studentId was undefined and
\* whose remainingSockets was copied
C25Witness ==
    /\ lastEvent.kind = "built"
    /\ now = 1
    /\ lastEvent.reason = Text("ping timeout")
    /\ DOMAIN lastEvent.context = ContextKeys
    /\ lastEvent.context.studentId = Undefined
    /\ lastEvent.context.reason = Null
    /\ lastEvent.context.remainingSockets = Num(0)
    /\ emitted[1].data.reason = Null
    /\ emitted[1].data.pingTimeout = Bool(TRUE)
    /\ emitted[1].data.studentId = Null
    /\ emitted[1].data.remainingSockets = Num(0)

\* C30: quizmasterSquare is an integer from 0 to 96 in every reachable state.
C30SquareIsInteger ==
    /\ quizmasterSquareHalves = 0
    /\ quizmasterSquare \in 0..MaxQuizmasterSquare

\* C21: when a second run, in which no service is configured or every call
\* fails, is given the events and timer firings of a run in which every call
\* succeeded, then after every step its students, answers, quiz, phase,
\* question index, quizmaster, sockets and timers are those of the first
\* run after that step, and the clients were sent the same events; and the
\* second run can take every event the first run took.
C21CollaboratorsLeaveGameAlone ==
    twin.mode = "second"
    => /\ ~Noted
          => /\ LiveState = twin.hist[twin.pos].live
             /\ ClientEmissions = twin.hist[twin.pos].out
       /\ Noted /\ twin.pos <= Len(twin.hist) => ENABLED SecondRunStep

\* a second run has ended in which the answer of s1 is recorded as in the
\* first run, where it was also logged for the session of q1
C21Witness ==
    /\ twin.mode = "second"
    /\ twin.pos > Len(twin.hist)
    /\ Len(twin.hist) = MaxRunLen
    /\ twin.hist[MaxRunLen].event.kind = "student-answer"
    /\ twin.hist[MaxRunLen].calls # <<>>
    /\ twin.hist[MaxRunLen].calls[1].fn = "logEvent"
    /\ twin.hist[MaxRunLen].calls[1].ok
    /\ currentGameSession = Null
    /\ answers # EmptyMap

\* C31: replace-student-name on a registered identity not yet named
\* 'Trouble' gives it that name and broadcasts student-list; on an identity
\* already so named, on an unknown id and without id it changes nothing and
\* emits nothing; in every case square, joinedAt, sockets of every student
\* and the answers stay as they were.
C31RenameIsIdempotent ==
    [][LET e == lastEvent'
       IN e.kind = "replace-student-name" /\ ReplaceStudentName(e.socket, e.id)
          => /\ IF /\ e.id # Undefined
                   /\ HasStudent(e.id.val)
                   /\ GetStudent(e.id.val).name # TroubleName
                THEN /\ students' = [i \in DOMAIN students |->
                                        IF students[i].id = e.id.val
                                        THEN [students[i] EXCEPT !.name = TroubleName]
                                        ELSE students[i]]
                     /\ emitted' = <<broadcastStudentList(students')>>
                ELSE /\ students' = students
                     /\ emitted' = <<>>
             /\ UNCHANGED <<answers, socketToStudent, disconnectTimers, timers>>
      ]_vars

\* the rename has been applied to "s2", who is on square 6, has answered and
\* is already named 'Trouble': nothing was emitted
C31Witness ==
    /\ lastEvent.kind = "replace-student-name"
    /\ lastEvent.id = Id("s2")
    /\ HasStudent("s2")
    /\ GetStudent("s2").name = TroubleName
    /\ GetStudent("s2").square = 6
    /\ "s2" \in DOMAIN answers
    /\ emitted = <<>>

\* C32: a student-move with a number square >= 0 and a roll from 1 to 6 puts
\* the target on exactly that square, beyond the board too, without adding
\* the roll; the student-move-update it emits has that square and the roll.
C32SquareWinsOverRoll ==
    [][LET e == lastEvent'
           targetId == TargetId(e.socket, e.id)
       IN /\ e.kind = "student-move"
          /\ StudentMove(e.socket, e.roll, e.id, e.square, e.allowed)
          /\ e.allowed
          /\ HasStudent(targetId)
          /\ IsDirectSquare(e.square)
          /\ IsDiceRoll(e.roll)
          => /\ SquareOf(students', targetId) = e.square.val
             /\ emitted'[1].event = "student-move-update"
             /\ emitted'[1].data.id = targetId
             /\ emitted'[1].data.square = e.square.val
             /\ emitted'[1].data.roll = e.roll
      ]_vars

\* s1 has been moved with square 98 and roll 6: it is on 98 and the update
\* carries the roll
C32Witness ==
    /\ lastEvent.kind = "student-move"
    /\ lastEvent.square = Num(98)
    /\ lastEvent.roll = Num(6)
    /\ HasStudent("s1")
    /\ GetStudent("s1").square = 98
    /\ Len(emitted) = 2
    /\ emitted[1].data.roll = Num(6)
    /\ emitted[1].data.square = 98

\* C33: a call rateLimit(socketId, event, max) adds its time to the calls
\* kept for that socket and event, whatever it returns, and returns true
\* when the calls for that pair less than 1000 ms old, accepted or not, and
\* this call are together at most max; what is kept for every other socket
\* or event is as before.
C33SlidingWindowPerSocketAndEvent ==
    [][LET e == lastEvent'
           old == TimestampsOf(rateLimits, e.socketId, e.event)
           recent == Cardinality({i \in DOMAIN old : now - old[i] < WindowMs})
           new == TimestampsOf(rateLimits', e.socketId, e.event)
       IN e.kind = "rateLimit" /\ RateLimit(e.socketId, e.event, e.maxPerSec)
          => /\ Len(new) = recent + 1
             /\ new[Len(new)] = now
             /\ \A i \in DOMAIN new : now - new[i] < WindowMs
             /\ e.result = (recent + 1 <= e.maxPerSec)
             /\ \A caller \in RateCallers :
                   caller # <<e.socketId, e.event>>
                   => TimestampsOf(rateLimits', caller[1], caller[2])
                         = TimestampsOf(rateLimits, caller[1], caller[2])
      ]_vars

\* the third student-join of s1 within a second, 500 ms after the first
\* two, is refused with max 2, while s2 has made a call of its own and the
\* student-answer calls of s1 are older than a second
C33Witness ==
    /\ lastEvent.kind = "rateLimit"
    /\ lastEvent.socketId = "s1"
    /\ lastEvent.event = "student-join"
    /\ lastEvent.maxPerSec = 2
    /\ ~lastEvent.result
    /\ now = 1000
    /\ TimestampsOf(rateLimits, "s1", "student-join") = <<500, 500, 1000>>
    /\ TimestampsOf(rateLimits, "s1", "student-answer") = <<0, 0>>
    /\ TimestampsOf(rateLimits, "s2", "student-join") # <<>>

\* C34: after every step each entry of socketToStudent names a student that
\* is registered and whose sockets contain the entry's socket, and when a
\* disconnect has been handled the socket has no entry.
C34SocketMapRefersToStudents ==
    [][/\ \A s \in DOMAIN socketToStudent' :
             \E i \in DOMAIN students' :
                /\ students'[i].id = socketToStudent'[s]
                /\ s \in students'[i].sockets
       /\ LET e == lastEvent'
          IN e.kind = "disconnect" /\ Disconnect(e.socket, e.reason)
             => e.socket \notin DOMAIN socketToStudent'
      ]_vars

\* s1, which joined under two ids, has disconnected and has no entry, while
\* s2 is still mapped to a student that counts it
C34Witness ==
    /\ lastEvent.kind = "disconnect"
    /\ lastEvent.socket = "s1"
    /\ "s1" \notin DOMAIN socketToStudent
    /\ "s2" \in DOMAIN socketToStudent
    /\ "s2" \in GetStudent(socketToStudent["s2"]).sockets
    /\ \E i \in DOMAIN students : "s1" \in students[i].sockets

\* C35: with timers firing, an identity that is registered while no
\* connection is open is purged in the end, unless a connection opens again.
C35ClosedIdentityIsPurged ==
    \A id \in Ids :
        (HasStudent(id) /\ connected = {}) ~> (~HasStudent(id) \/ connected # {})

\* C36: an accepted student-join for an identity that is registered puts it
\* on the square of the join when that is a number >= 0, whatever square the
\* server had for it, and leaves its square alone otherwise.
C36RejoinSquareWins ==
    [][LET e == lastEvent'
           id == ResolveStudentId(e.socket, e.student_id)
       IN JoinStep(e) /\ HasStudent(id)
          => SquareOf(students', id) =
                IF IsNumber(e.square) /\ e.square.val >= 0
                THEN e.square.val
                ELSE SquareOf(students, id)
      ]_vars

\* "a", whom the teacher had put on 7, has rejoined with square 5 and is on 5
C36Witness ==
    /\ lastEvent.kind = "student-join"
    /\ lastEvent.square = Num(5)
    /\ HasStudent("a")
    /\ GetStudent("a").square = 5
    /\ \E i \in DOMAIN logged :
          logged[i] = [line |-> "recovery", studentId |-> "a", from |-> 7, to |-> 5]

\* the name of the student registered as id in the entries ss
NameOf(ss, id) == ss[CHOOSE i \in DOMAIN ss : ss[i].id = id].name

\* C37: an accepted student-join for an identity that is registered leaves
\* the identity's name as it was, whatever name the join supplies.
C37RejoinKeepsName ==
    [][LET e == lastEvent'
           id == ResolveStudentId(e.socket, e.student_id)
       IN JoinStep(e) /\ HasStudent(id)
          => NameOf(students', id) = NameOf(students, id)
      ]_vars

\* "a", renamed by the teacher, has rejoined over s1 as "B" after all its
\* sockets had gone, and is still named 'Trouble'
C37Witness ==
    /\ lastEvent.kind = "student-join"
    /\ lastEvent.socket = "s1"
    /\ lastEvent.name = Str(<<66>>)
    /\ HasStudent("a")
    /\ GetStudent("a").name = TroubleName
    /\ GetStudent("a").sockets = {"s1"}
    /\ \E i \in DOMAIN logged : logged[i].line = "cancelled-cleanup"

\* C38: whenever currentGameSession is not null, a quiz is loaded and it is
\* the quiz the session was created for.
C38SessionIsOfLoadedQuiz ==
    currentGameSession # Null
    => /\ currentQuiz # Null
       /\ currentQuiz.content = QuizOf(currentGameSession.id)

\* C39: restart-game leaves no cleanup timer pending, and a timer that
\* removes an identity is the one the latest disconnect of that identity
\* registered in disconnectTimers, so it was scheduled after the last restart.
C39NoTimerSurvivesRestart ==
    [][/\ LET e == lastEvent'
          IN e.kind = "restart-game" /\ RestartGame(e.socket)
             => timers' = <<>> /\ disconnectTimers' = EmptyMap
       /\ TimerFire /\ students' # students
          => LET t == Head(timers)
             IN /\ t.studentId \in DOMAIN disconnectTimers
                /\ disconnectTimers[t.studentId] = t.handle
                /\ \A i \in DOMAIN timers : i > 1 => timers[i].studentId # t.studentId]_vars

\* a cleanup purges an identity with an answer after a restart: no quiz is
\* loaded although a session of a loaded file is still being created
C39Witness ==
    /\ lastEvent.kind = "timer"
    /\ logged # <<>> /\ logged[1].line = "grace-expired" /\ logged[1].hadAnswer
    /\ currentQuiz = Null
    /\ pendingSessions # {}

\* C40: the cleanupScheduled field of the record built on disconnect is true
\* exactly when that disconnect schedules a cleanup timer.
C40CleanupScheduledIsExact ==
    [][LET e == lastEvent'
       IN e.kind = "disconnect" /\ Disconnect(e.socket, e.reason)
          => emitted'[1].data.cleanupScheduled = Bool(Len(timers') > Len(timers))]_vars

====
